---- MODULE Spec2Model ----
(***************************************************************************)
(* A model of the worker runtime of shadow_player                          *)
(* (src/adapters/telegram/async_worker.py): the TelegramAsyncWorker, the   *)
(* threads its start() spawns, the task queue they poll, the Qt signals    *)
(* they emit and the callbacks the owning thread runs, together with the   *)
(* stream responses that the streaming proxy relays on the worker's loop;  *)
(* and of the streaming proxy (src/adapters/telegram/streaming_proxy.py):  *)
(* its registrations, the parsing and clamping of Range headers, the       *)
(* replies of _handle_stream and the relaying of chunks; and of the cache   *)
(* manager (src/adapters/telegram/cache_manager.py): its index, the files   *)
(* behind it, lookups, admissions, cleanup() and clear_all(), as whole      *)
(* calls and as the statements that flows sharing one manager interleave,   *)
(* and the size limits it offers for the free space of the disk; of the     *)
(* worker's startup (the repair of the session file, the start of the       *)
(* proxy) and its shutdown; of MoovAtomHandler.find_moov_position; and of   *)
(* the playlist of the VideoService (src/app/services.py).                  *)
(***************************************************************************)
EXTENDS Integers, Sequences, FiniteSets, TLC

\* ------------------------------------------------------------------ bounds
\* execute() calls made in a run (each call passes its own callback)
MaxCalls == 2
\* stop() calls made in a run
MaxStops == 1
\* threads that start() can spawn in a run
MaxThreads == 2
\* stream responses that can be in progress at once
MaxStreams == 2

Calls == 1..MaxCalls
Threads == 1..MaxThreads
Streams == 1..MaxStreams

\* Python's None, for a thread handle
None == 0

\* the largest total size of a remote object, in bytes
MaxSize == 4
\* the chunk size _handle_stream asks iter_download for (64 * 1024 in the program)
chunk_size == 2
\* get_stream_url / prepare_stream calls made in a run
MaxRegistrations == 2

Sizes == 0..MaxSize

VARIABLES
    task_queue,        \* self._task_queue: the tasks put and not yet got, oldest first
    thread,            \* self._thread: None or the handle of the last thread started
    running,           \* self._running
    callback_counter,  \* self._callback_counter
    callbacks,         \* self._callbacks: callback_id -> the callback (named by its call)
    pc,                \* where each worker thread is in _run_event_loop/_worker_main
    cur,               \* the task each worker thread dequeued and is executing
    res,               \* what the awaited _execute_task gave that thread
    signals,           \* emissions queued to the owner's event loop, oldest first
    fired,             \* per call: the invocations of its callback, in order
    ownerPc,           \* the owning thread: "idle" (in its event loop) or "join" (in stop())
    stops,             \* stop() calls made so far
    stopCaught,        \* threads that were inside a task when stop() was called
    call,              \* per execute() call: its position and its local variables
    listener,          \* the thread whose proxy holds the HTTP port, or None
    streams,           \* per stream response: whether its handler is relaying chunks
    registrations,     \* the proxy's self._streams: stream_id -> the registered tuple
    site,              \* the proxy's self._site is started: the listener accepts requests
    response,          \* per stream response: the request, the handler's locals, the reply
    issued,            \* the stream ids and URLs get_stream_url has returned, oldest first
    cache_entries,     \* the rows of the cache index table (cache_index.db)
    files,             \* the paths under cache_dir at which a file exists
    settings,          \* the cache manager's self.settings
    now,               \* what time.time() returns
    lastCall,          \* the cache manager call whose result its caller has yet to take
    flow,              \* per flow of control inside the cache manager: position and locals
    session,           \* the Telethon session file, and per thread what its connect() calls did
    disk,              \* the free space shutil.disk_usage gave, and the size limits offered
    scan,              \* find_moov_position: its arguments, its locals, the headers it read
    service            \* the VideoService: its playlist state

workerVars == <<task_queue, thread, running, callback_counter, callbacks, pc, cur, res,
                signals, fired, ownerPc, stops, stopCaught, call>>
proxyVars == <<listener, streams>>
gatewayVars == <<registrations, site, response, issued>>
cacheVars == <<cache_entries, files, settings, now, lastCall, flow>>
appVars == <<session, disk, scan, service>>
vars == <<workerVars, proxyVars, gatewayVars, cacheVars, appVars>>

\* ------------------------------------------------------------------ tasks
\* TelegramOp members that callers submit; STOP is put by stop()
Ops == {"GET_CHATS"}

TelegramTask(operation, callback_id) == [operation |-> operation, callback_id |-> callback_id]

StopTask == TelegramTask("STOP", -1)

\* a thread that is not executing a task has none
NoTask == TelegramTask("NONE", 0)

\* Python values, by their type and their text
Value(type, text) == [type |-> type, text |-> text]

NoValue == Value("NoneType", "None")

\* the exceptions a task can raise
Exceptions == {Value("ValueError", "Message not found")}

\* str(e) of an exception: a string that holds its message and not its type
Str(e) == Value("str", e.text)

\* what _execute_task returns for a task
TaskResult(task) == Value("result", task.operation)

IsException(r) == r.type \in {e.type : e \in Exceptions}

\* ------------------------------------------------------------------ strings
\* a Python str, as the sequence of its characters; Digits[d + 1] is the digit d
Digits == <<"0", "1", "2", "3", "4", "5", "6", "7", "8", "9">>

IsDigit(c) == \E d \in 0..9 : Digits[d + 1] = c

DigitValue(c) == CHOOSE d \in 0..9 : Digits[d + 1] = c

\* the decimal digits of a natural number
RECURSIVE Decimal(_)
Decimal(n) ==
    IF n < 10 THEN <<Digits[n + 1]>> ELSE Decimal(n \div 10) \o <<Digits[(n % 10) + 1]>>

\* f"{n}" of an int
Format(n) == IF n < 0 THEN <<"-">> \o Decimal(0 - n) ELSE Decimal(n)

\* s.strip() of the blanks around a str
RECURSIVE Strip(_)
Strip(s) ==
    IF s = <<>> THEN s
    ELSE IF Head(s) = " " THEN Strip(Tail(s))
    ELSE IF s[Len(s)] = " " THEN Strip(SubSeq(s, 1, Len(s) - 1))
    ELSE s

\* the digits of a literal, without its sign
Unsigned(s) == IF s # <<>> /\ Head(s) \in {"+", "-"} THEN Tail(s) ELSE s

\* int(s) returns: s is an optional sign and decimal digits, blanks around them
\* allowed; for any other str int(s) raises ValueError
IsInt(s) ==
    LET u == Unsigned(Strip(s))
    IN  u # <<>> /\ \A i \in 1..Len(u) : IsDigit(u[i])

RECURSIVE Natural(_)
Natural(u) ==
    IF u = <<>> THEN 0 ELSE 10 * Natural(SubSeq(u, 1, Len(u) - 1)) + DigitValue(u[Len(u)])

\* int(s) of a str that int() accepts
IntOf(s) ==
    LET t == Strip(s)
    IN  IF Head(t) = "-" THEN 0 - Natural(Unsigned(t)) ELSE Natural(Unsigned(t))

\* s.startswith(prefix)
StartsWith(s, prefix) == Len(s) >= Len(prefix) /\ SubSeq(s, 1, Len(prefix)) = prefix

\* c in s
Contains(s, c) == \E i \in 1..Len(s) : s[i] = c

\* s.split(sep) for a one-character separator: the parts between the separators
RECURSIVE Split(_, _)
Split(s, sep) ==
    IF Contains(s, sep)
    THEN LET i == CHOOSE k \in 1..Len(s) : s[k] = sep /\ \A j \in 1..(k - 1) : s[j] # sep
         IN  <<SubSeq(s, 1, i - 1)>> \o Split(SubSeq(s, i + 1, Len(s)), sep)
    ELSE <<s>>

\* 'bytes='
BytesEq == <<"b", "y", "t", "e", "s", "=">>

\* ------------------------------------------------------------------ range requests
\* the Range header is parsed: range_header[6:] is split at '-' and the parts that
\* are not empty are given to int(), which raises ValueError for a part it cannot read
ParseRange(range_header, file_size) ==
    LET range_spec == SubSeq(range_header, 7, Len(range_header))
        parts == Split(range_spec, "-")
        whole == [raises |-> FALSE, start |-> 0, end |-> file_size - 1]
    IN  IF StartsWith(range_header, BytesEq) /\ Contains(range_spec, "-")
        THEN IF parts[1] # <<>> /\ ~IsInt(parts[1])
             THEN [whole EXCEPT !.raises = TRUE]
             ELSE IF parts[2] # <<>> /\ ~IsInt(parts[2])
             THEN [whole EXCEPT !.raises = TRUE]
             ELSE [raises |-> FALSE,
                   start |-> IF parts[1] # <<>> THEN IntOf(parts[1]) ELSE 0,
                   end |-> IF parts[2] # <<>> THEN IntOf(parts[2]) ELSE file_size - 1]
        ELSE whole

Max(a, b) == IF a >= b THEN a ELSE b

Min(a, b) == IF a <= b THEN a ELSE b

\* start = max(0, min(start, file_size - 1))
ClampStart(start, file_size) == Max(0, Min(start, file_size - 1))

\* end = max(start, min(end, file_size - 1)), with the clamped start
ClampEnd(start, end, file_size) == Max(start, Min(end, file_size - 1))

\* f'bytes {start}-{end}/{file_size}'
ContentRange(start, end, file_size) ==
    <<"b", "y", "t", "e", "s", " ">> \o Format(start) \o <<"-">> \o Format(end)
        \o <<"/">> \o Format(file_size)

\* ------------------------------------------------------------------ gateway values
\* the chats and messages that remote objects are named by
ChatIds == {-1, 11}

MessageIds == {1}

\* a Telethon message: the chat and id it was fetched by, which of its attributes
\* holds the media ("file", "document", "video", or "none" of them) and the size
\* that attribute reports
Message(chat_id, id, media, size) ==
    [chat_id |-> chat_id, id |-> id, media |-> media, size |-> size]

\* message_obj=None
NoMessage == Message(0, 0, "NoneType", 0)

\* the messages get_messages can return for a chat and an id
Messages(chat_id, id) ==
    {Message(chat_id, id, media, size) : media \in {"file", "document", "video"}, size \in Sizes}
    \cup {Message(chat_id, id, "none", 0)}

\* size = 0, then the first of msg.file, msg.document, msg.video that is there gives it
SizeOf(msg) == IF msg.media \in {"file", "document", "video"} THEN msg.size ELSE 0

\* a stream id without the underscore between the two ids
StreamIdJoined(chat_id, message_id) == Format(chat_id) \o Format(message_id)

\* stream_id = f"{chat_id}_{message_id}"
StreamId(chat_id, message_id) == Format(chat_id) \o <<"_">> \o Format(message_id)

\* self.base_url, taken as one piece
base_url == <<"http://127.0.0.1:8765">>

\* f"{self.base_url}/stream/{stream_id}"
StreamUrl(stream_id) == base_url \o <<"/stream/">> \o stream_id

\* the tuple get_stream_url stores
Registration(message_id, chat_id, file_size, message_obj) ==
    [message_id |-> message_id, chat_id |-> chat_id, file_size |-> file_size,
     message |-> message_obj]

\* a GET /stream/{stream_id} request: the token of its path and its Range header
Request(stream_id, has_range, range) ==
    [stream_id |-> stream_id, has_range |-> has_range, range |-> range]

\* request.headers.get('Range', '')
RangeHeader(request) == IF request.has_range THEN request.range ELSE <<>>

\* a stream response: its request; where its handler is ("none": no request yet,
\* "streaming": prepared and relaying, "done": the handler returned, "raised": an
\* exception left the handler); the handler's locals; the status and headers of the
\* reply; the chunks asked of iter_download and the bytes written, by their offsets
NoResponse ==
    [request |-> Request(<<>>, FALSE, <<>>), state |-> "none", file_size |-> 0,
     message |-> NoMessage, start |-> 0, end |-> 0, content_length |-> 0, status |-> 0,
     header_names |-> {}, content_range |-> <<>>, chunks |-> 0, written |-> <<>>,
     write_failed |-> FALSE, download_failed |-> FALSE]

\* ------------------------------------------------------------------ cache values
\* the files that can be cached in a run, named by their file_id
MaxFiles == 2
\* the latest time the clock reaches, in weeks
MaxTime == 3
\* the flows of control that can be inside the cache manager at once
MaxFlows == 2

FileIds == 1..MaxFiles

\* CacheSizeLimit, in GiB
GB_2 == 2
GB_4 == 4
GB_6 == 6
GB_8 == 8
GB_10 == 10
GB_30 == 30
GB_50 == 50
\* CacheRetention, in weeks
WEEK_1 == 1
UNLIMITED == -1

\* ------------------------------------------------------------------ playlist
\* the paths of the videos of a run
MaxVideos == 2
\* the longest playlist of a run
MaxPlaylist == 3

\* a Video is named by its path: Video is a dataclass, two videos of one path are equal
Paths == 1..MaxVideos

\* the lists of videos of a run
Playlists == UNION {[1..n -> Paths] : n \in 0..MaxPlaylist}

LoopModes == {"NO_LOOP", "LOOP_ONE", "LOOP_ALL"}

\* list.pop(index), the list that is left; indices count from 0
ListPop(list, index) == SubSeq(list, 1, index) \o SubSeq(list, index + 2, Len(list))

\* list.insert(index, item): an index past the end appends
ListInsert(list, index, item) ==
    LET at == Min(index, Len(list))
    IN  SubSeq(list, 1, at) \o <<item>> \o SubSeq(list, at + 1, Len(list))

\* list.index(item), for an item of the list: the first place it is at
ListIndex(list, item) ==
    (CHOOSE i \in 1..Len(list) : list[i] = item /\ \A j \in 1..(i - 1) : list[j] # item) - 1

\* list.remove(item), for an item of the list
ListRemove(list, item) == ListPop(list, ListIndex(list, item))

\* what random.shuffle(list) can leave in the list
Shuffles(list) ==
    {[i \in 1..Len(list) |-> list[p[i]]] : p \in Permutations(1..Len(list))}

\* VideoService.__init__
NoService ==
    [playlist |-> <<>>, original_playlist |-> <<>>, current_index |-> -1,
     loop_mode |-> "NO_LOOP", is_shuffled |-> FALSE, current_video |-> None]

\* play_at_index(index): nothing for an index outside the playlist
play_at_index(s, index) ==
    IF 0 <= index /\ index < Len(s.playlist)
    THEN [s EXCEPT !.current_index = index, !.current_video = s.playlist[index + 1]]
    ELSE s

cur_has_next(s) == s.current_index + 1 < Len(s.playlist)

cleanup_playlist(s) ==
    [s EXCEPT !.playlist = <<>>, !.original_playlist = <<>>, !.current_index = -1]

\* add_files(paths): both branches extend original_playlist
add_files(s, paths) ==
    [s EXCEPT !.playlist = @ \o paths, !.original_playlist = @ \o paths]

\* ------------------------------------------------------------------ moov atom
\* the largest file_size find_moov_position is called with
MaxTotal == 5
ATOM_HEADER_SIZE == 8

\* the bytes of 'moov' and of two other atom types
moov == <<109, 111, 111, 118>>
ftyp == <<102, 116, 121, 112>>
mdat == <<109, 100, 97, 116>>

\* what the chunks of read_chunk(offset, 8) can add up to: nothing, 7 bytes, the
\* header of a moov atom of size 0, headers of atoms of the sizes 1 and 2, headers of
\* moov atoms of the sizes 3 and 9 (the latter with a byte more than was asked for),
\* the header of an atom of size 256, and a header whose type has a byte that is
\* not ASCII before 'moo'
HeaderData ==
    {<<>>,
     <<0, 0, 0, 8>> \o SubSeq(moov, 1, 3),
     <<0, 0, 0, 0>> \o moov,
     <<0, 0, 0, 1>> \o ftyp,
     <<0, 0, 0, 2>> \o mdat,
     <<0, 0, 0, 3>> \o moov,
     <<0, 0, 0, 9>> \o moov \o <<0>>,
     <<0, 0, 1, 0>> \o ftyp,
     <<0, 0, 0, 1, 255>> \o SubSeq(moov, 1, 3)}

IsAscii(byte) == byte < 128

\* parse_atom_header(data): (0, "") for fewer than 8 bytes; else the first 4 bytes
\* as a big-endian unsigned integer, and the next 4 decoded as ASCII with the
\* bytes that are not ASCII left out
parse_atom_header(data) ==
    IF Len(data) < 8
    THEN [size |-> 0, atom_type |-> <<>>]
    ELSE [size |-> data[1] * 16777216 + data[2] * 65536 + data[3] * 256 + data[4],
          atom_type |-> SelectSeq(SubSeq(data, 5, 8), IsAscii)]

\* the result None of find_moov_position
Absent == <<>>

\* before any call of find_moov_position
NoScan == [pc |-> "idle", file_size |-> 0, offset |-> 0, result |-> Absent,
           visited |-> <<>>]

\* a faulty loop body: a declared size of 0 does not end the scan
AfterHeaderAnySize(s, header_data) ==
    LET atom == parse_atom_header(header_data)
    IN  IF Len(header_data) < ATOM_HEADER_SIZE
        THEN [s EXCEPT !.pc = "done"]
        ELSE IF atom.atom_type = moov
        THEN [s EXCEPT !.pc = "done", !.result = <<s.offset, atom.size>>]
        ELSE [s EXCEPT !.offset = @ + atom.size]

\* the body of the loop of find_moov_position once the header is read: break on a
\* short header and on a size of 0, return on 'moov', else step over the atom
AfterHeader(s, header_data) ==
    LET atom == parse_atom_header(header_data)
    IN  IF Len(header_data) < ATOM_HEADER_SIZE
        THEN [s EXCEPT !.pc = "done"]
        ELSE IF atom.size = 0
        THEN [s EXCEPT !.pc = "done"]
        ELSE IF atom.atom_type = moov
        THEN [s EXCEPT !.pc = "done", !.result = <<s.offset, atom.size>>]
        ELSE [s EXCEPT !.offset = @ + atom.size]

\* ------------------------------------------------------------------ disk space
\* the largest free space of the disk, in halves of a GiB
MaxFree == 112
\* the reserve left free on the disk, in GiB
RESERVE == 5

\* the free space shutil.disk_usage can give: byte counts that are a whole number of
\* halves of a GiB, written in halves of a GiB
FreeSpace == 0..MaxFree

\* a faulty budget: no reserve is left
AvailableNoReserve(free) == free

\* DiskInfo.available_for_cache, in halves of a GiB
available_for_cache(free) == Max(0, free - 2 * RESERVE)

ALL_LIMITS ==
    <<[label |-> "2 GB", value |-> GB_2], [label |-> "4 GB", value |-> GB_4],
      [label |-> "6 GB", value |-> GB_6], [label |-> "8 GB", value |-> GB_8],
      [label |-> "10 GB", value |-> GB_10], [label |-> "30 GB", value |-> GB_30],
      [label |-> "50 GB", value |-> GB_50]>>

\* get_available_size_limits() on a disk with that much free space: the tuples
\* (label, value, enabled), the comparison made in halves of a GiB
get_available_size_limits(free) ==
    LET available == available_for_cache(free)
    IN  [i \in DOMAIN ALL_LIMITS |->
            [label |-> ALL_LIMITS[i].label, value |-> ALL_LIMITS[i].value,
             enabled |-> 2 * ALL_LIMITS[i].value <= available]]

\* before any call: nothing read from the disk, no limits offered
NoDisk == [free |-> 0, limits |-> <<>>]

CacheSettings(size_limit, retention_period, auto_cleanup_enabled) ==
    [size_limit |-> size_limit, retention_period |-> retention_period,
     auto_cleanup_enabled |-> auto_cleanup_enabled]

\* the settings of a run: two tiers of CacheSizeLimit; the unlimited retention, a
\* retention of no time at all and a positive one
AllSettings ==
    {CacheSettings(l, r, a) : l \in {GB_2, GB_4}, r \in {UNLIMITED, 0, WEEK_1},
                              a \in BOOLEAN}

\* the size in GiB of the remote file that file_id names: the files of a run differ
\* in size, the smallest is as large as the smallest size limit
FileSize(file_id) == file_id + 1

\* no call of the cache manager is waiting for its caller
NoCall ==
    [op |-> "none", file_id |-> None, ret |-> None, replaced |-> FALSE, removed |-> 0,
     unlinked |-> 0, failed |-> FALSE, returned |-> TRUE]

\* a flow that is not inside the cache manager
Outside == [pc |-> "outside", op |-> "none", file_id |-> None, fetched |-> {}]

\* a cache manager constructed on an empty cache directory
CacheInit(s) ==
    /\ cache_entries = {}
    /\ files = {}
    /\ settings = s
    /\ now = 0
    /\ lastCall = NoCall
    /\ flow = [f \in 1..MaxFlows |-> Outside]

\* ------------------------------------------------------------------ threads
\* a thread is "unborn" until start() starts it, and ends "dead" (its loop was left
\* on _running or on STOP) or "failed" (its startup raised)
Alive(t) == pc[t] \notin {"unborn", "dead", "failed"}

AliveThreads == {t \in Threads : Alive(t)}

\* the thread is suspended in an await of the loop, so the loop runs other coroutines
Suspended(t) == pc[t] \in {"sleep", "exec"}

\* the thread is inside a remote call that can outlast the join timeout
InRemoteCall(t) == pc[t] \in {"connect", "reconnect", "exec"}

\* what a thread's Telethon client has done at startup: the connect() calls awaited,
\* str(e) of the exception the last one raised, and what became of the unlink of
\* the session file ("none": not tried, "missing": no file, "done", "OSError")
NoClient == [connects |-> 0, error |-> <<>>, unlink |-> "none"]

\* str(e) of the exceptions connect() raises, in pieces
ConnectErrors ==
    {<<"no such column", ": version">>, <<"database is locked">>,
     <<"database disk image is malformed">>, <<"Connection to Telegram failed">>}

\* a test that takes every exception for a corrupt session
AnyException(e) == TRUE

\* the test for a corrupt or incompatible session file
CorruptSession(e) ==
    \/ Contains(e, "no such column")
    \/ Contains(e, "database is locked")
    \/ Contains(e, "database disk image is malformed")

\* the worker after construction
WorkerInit ==
    /\ task_queue = <<>>
    /\ thread = None
    /\ running = FALSE
    /\ callback_counter = 0
    /\ callbacks = <<>>
    /\ pc = [t \in Threads |-> "unborn"]
    /\ cur = [t \in Threads |-> NoTask]
    /\ res = [t \in Threads |-> NoValue]
    /\ signals = <<>>
    /\ fired = [c \in Calls |-> <<>>]
    /\ ownerPc = "idle"
    /\ stops = 0
    /\ stopCaught = {}
    /\ call = [c \in Calls |-> [pc |-> "idle", tmp |-> 0, callback_id |-> 0, pre |-> {}]]
    /\ listener = None
    /\ streams = [s \in Streams |-> FALSE]
    /\ session = [exists |-> TRUE, client |-> [t \in Threads |-> NoClient]]
    /\ disk = NoDisk
    /\ scan = NoScan
    /\ service = NoService

\* the worker and a proxy that was started, with nothing registered
Init ==
    /\ WorkerInit
    /\ registrations = <<>>
    /\ site = TRUE
    /\ response = [s \in Streams |-> NoResponse]
    /\ issued = <<>>
    /\ CacheInit(CacheSettings(GB_10, WEEK_1, TRUE))

\* what a call of get_stream_url can have stored: by the worker, a message and the
\* size it reports, which is not 0; by prepare_stream, no message and any size
Registrable(chat_id, message_id) ==
    {Registration(message_id, chat_id, SizeOf(msg), msg) :
        msg \in {m \in Messages(chat_id, message_id) : SizeOf(m) # 0}}
    \cup {Registration(message_id, chat_id, file_size, NoMessage) : file_size \in Sizes}

\* a started proxy on which get_stream_url has stored data for a stream
StartedWith(chat_id, message_id, data) ==
    LET stream_id == StreamId(chat_id, message_id)
    IN  /\ WorkerInit
        /\ registrations = [k \in {stream_id} |-> data]
        /\ issued = <<[stream_id |-> stream_id, url |-> StreamUrl(stream_id)]>>
        /\ site = TRUE
        /\ response = [s \in Streams |-> NoResponse]
        /\ CacheInit(CacheSettings(GB_10, WEEK_1, TRUE))

\* a started proxy on which one stream was registered
RegisteredInit ==
    \E chat_id \in ChatIds, message_id \in MessageIds :
    \E data \in Registrable(chat_id, message_id) :
        StartedWith(chat_id, message_id, data)

\* a started proxy on which the worker registered one stream, of a message with a file
WorkerRegisteredInit ==
    \E chat_id \in ChatIds, message_id \in MessageIds, size \in Sizes \ {0} :
        StartedWith(chat_id, message_id,
                    Registration(message_id, chat_id, size,
                                 Message(chat_id, message_id, "file", size)))

\* ------------------------------------------------------------------ signals
Completed(callback_id, result) ==
    [signal |-> "operation_completed", callback_id |-> callback_id, payload |-> result]

Failed(callback_id, error_msg) ==
    [signal |-> "operation_failed", callback_id |-> callback_id, payload |-> error_msg]

\* the first argument the slot of a signal passes to the callback
SuccessFlag(sig) == sig.signal = "operation_completed"

\* self._callbacks.pop(callback_id, None)
Pop(cbs, callback_id) == [k \in DOMAIN cbs \ {callback_id} |-> cbs[k]]

\* some worker thread is awaiting the task that carries this callback_id
InsideTask(callback_id) ==
    \E t \in Threads : pc[t] = "exec" /\ cur[t].callback_id = callback_id

\* one invocation callback(flag, payload), with the thread it runs in ("owner": the
\* thread the worker object lives in; "loop": a worker thread) and what that thread
\* and the loop were doing
Invocation(sig, ctx) ==
    [ok |-> SuccessFlag(sig), payload |-> sig.payload, thread |-> ctx,
     ownerBusy |-> ownerPc # "idle", inTask |-> InsideTask(sig.callback_id)]

\* _handle_result / _handle_error run in context ctx: pop the callback and, if there
\* was one, call it
HandleSignal(sig, ctx) ==
    IF sig.callback_id \in DOMAIN callbacks
    THEN /\ callbacks' = Pop(callbacks, sig.callback_id)
         /\ fired' = [fired EXCEPT ![callbacks[sig.callback_id]] =
                          Append(@, Invocation(sig, ctx))]
    ELSE UNCHANGED <<callbacks, fired>>

\* a faulty emit: the slot is called directly, in the emitting thread
EmitDirect(t, sig) ==
    /\ HandleSignal(sig, "loop")
    /\ UNCHANGED signals

\* Signal.emit from worker thread t: the worker object lives in the owner's thread, so
\* the connection is queued and the slot runs later, in the owner's event loop
Emit(t, sig) ==
    /\ signals' = Append(signals, sig)
    /\ UNCHANGED <<callbacks, fired>>

\* ------------------------------------------------------------------ worker thread
\* the thread's loop is closed: the responses its listener was relaying end with it
LoopClosed(t) ==
    streams' = IF listener = t THEN [s \in Streams |-> FALSE] ELSE streams

\* _run_event_loop leaves: _cleanup, loop.close(), the thread ends
ThreadEnds(t, how) ==
    /\ pc' = [pc EXCEPT ![t] = how]
    /\ stopCaught' = stopCaught \ {t}
    /\ LoopClosed(t)
    /\ UNCHANGED listener

\* await self._client.connect(): it returns, or it raises and _worker_main ends
Connect(t) ==
    /\ pc[t] = "connect"
    /\ \/ /\ pc' = [pc EXCEPT ![t] = "proxy"]
          /\ UNCHANGED <<stopCaught, proxyVars>>
       \/ ThreadEnds(t, "failed")
    /\ UNCHANGED <<task_queue, thread, running, callback_counter, callbacks, cur, res,
                   signals, fired, ownerPc, stops, call, gatewayVars, cacheVars, appVars>>

\* the connection at startup, with the repair of the session file: connect() returns
\* (Telethon then has a session file) or raises; an exception with the signature of
\* a corrupt session is caught, the session file is unlinked if it exists, an
\* OSError of the unlink is printed, and a new client connects; any other exception,
\* and every exception of the second connect(), leaves _worker_main
ConnectSession(t) ==
    /\ \/ /\ pc[t] \in {"connect", "reconnect"}
          /\ \/ /\ pc' = [pc EXCEPT ![t] = "proxy"]
                /\ session' = [session EXCEPT !.exists = TRUE, !.client[t].connects = @ + 1]
                /\ UNCHANGED <<stopCaught, proxyVars>>
             \/ \E e \in ConnectErrors :
                   /\ session' = [session EXCEPT !.client[t].connects = @ + 1,
                                                 !.client[t].error = e]
                   /\ IF pc[t] = "connect" /\ CorruptSession(e)
                      THEN /\ pc' = [pc EXCEPT ![t] = "repair"]
                           /\ UNCHANGED <<stopCaught, proxyVars>>
                      ELSE ThreadEnds(t, "failed")
       \/ /\ pc[t] = "repair"
          /\ pc' = [pc EXCEPT ![t] = "reconnect"]
          /\ IF session.exists
             THEN \E unlinked \in BOOLEAN :
                     session' = [session EXCEPT
                                    !.exists = ~unlinked,
                                    !.client[t].unlink = IF unlinked THEN "done" ELSE "OSError"]
             ELSE session' = [session EXCEPT !.client[t].unlink = "missing"]
          /\ UNCHANGED <<stopCaught, proxyVars>>
    /\ UNCHANGED <<task_queue, thread, running, callback_counter, callbacks, cur, res,
                   signals, fired, ownerPc, stops, call, gatewayVars, cacheVars, disk,
                   scan, service>>

\* await self._proxy.start() raises for a cause outside the worker (the port is held
\* by another program): the failure is printed and the loop is entered all the same
ProxyStartFails(t) ==
    /\ pc[t] = "proxy"
    /\ registrations' = <<>>
    /\ pc' = [pc EXCEPT ![t] = "loop"]
    /\ UNCHANGED <<task_queue, thread, running, callback_counter, callbacks, cur, res,
                   signals, fired, ownerPc, stops, stopCaught, call, proxyVars, site,
                   response, issued, cacheVars, appVars>>

\* no listening socket holds the port, or the one that does belongs to a closed loop
PortFree == IF listener = None THEN TRUE ELSE ~Alive(listener)

\* self._proxy = TelegramStreamingProxy(...), a gateway with an empty table, then
\* await self._proxy.start(): binding the port fails while another live thread's
\* listener holds it; the socket of a dead thread's listener may or may not have
\* been collected; a failure is printed and the loop is entered all the same
StartProxy(t) ==
    /\ pc[t] = "proxy"
    /\ \/ /\ PortFree
          /\ listener' = t
       \/ /\ listener # None
          /\ UNCHANGED listener
    /\ registrations' = <<>>
    /\ pc' = [pc EXCEPT ![t] = "loop"]
    /\ UNCHANGED <<task_queue, thread, running, callback_counter, callbacks, cur, res,
                   signals, fired, ownerPc, stops, stopCaught, call, streams, site,
                   response, issued, cacheVars, appVars>>

StreamsActive == \E s \in Streams : streams[s]

\* while self._running: the loop goes on to poll the queue, or _worker_main returns
LoopCheck(t) ==
    /\ pc[t] = "loop"
    /\ IF running
       THEN /\ pc' = [pc EXCEPT ![t] = "get"]
            /\ UNCHANGED <<stopCaught, proxyVars>>
       ELSE ThreadEnds(t, "dead")
    /\ UNCHANGED <<task_queue, thread, running, callback_counter, callbacks, cur, res,
                   signals, fired, ownerPc, stops, call, gatewayVars, cacheVars, appVars>>

\* a faulty poll: the queue is looked at only when no stream response is being relayed
GetNowaitStarved(t) ==
    /\ pc[t] = "get"
    /\ IF task_queue = <<>> \/ StreamsActive
       THEN /\ pc' = [pc EXCEPT ![t] = "sleep"]
            /\ UNCHANGED <<task_queue, cur, stopCaught, proxyVars>>
       ELSE /\ task_queue' = Tail(task_queue)
            /\ IF Head(task_queue).operation = "STOP"
               THEN /\ ThreadEnds(t, "dead")
                    /\ UNCHANGED cur
               ELSE /\ pc' = [pc EXCEPT ![t] = "exec"]
                    /\ cur' = [cur EXCEPT ![t] = Head(task_queue)]
                    /\ UNCHANGED <<stopCaught, proxyVars>>
    /\ UNCHANGED <<thread, running, callback_counter, callbacks, res, signals, fired,
                   ownerPc, stops, call, gatewayVars, cacheVars, appVars>>

\* self._task_queue.get_nowait(): Empty sends the loop to sleep; STOP breaks out of
\* the loop; any other task is executed
GetNowait(t) ==
    /\ pc[t] = "get"
    /\ IF task_queue = <<>>
       THEN /\ pc' = [pc EXCEPT ![t] = "sleep"]
            /\ UNCHANGED <<task_queue, cur, stopCaught, proxyVars>>
       ELSE /\ task_queue' = Tail(task_queue)
            /\ IF Head(task_queue).operation = "STOP"
               THEN /\ ThreadEnds(t, "dead")
                    /\ UNCHANGED cur
               ELSE /\ pc' = [pc EXCEPT ![t] = "exec"]
                    /\ cur' = [cur EXCEPT ![t] = Head(task_queue)]
                    /\ UNCHANGED <<stopCaught, proxyVars>>
    /\ UNCHANGED <<thread, running, callback_counter, callbacks, res, signals, fired,
                   ownerPc, stops, call, gatewayVars, cacheVars, appVars>>

\* await asyncio.sleep(0.05) is over
Wake(t) ==
    /\ pc[t] = "sleep"
    /\ pc' = [pc EXCEPT ![t] = "loop"]
    /\ UNCHANGED <<task_queue, thread, running, callback_counter, callbacks, cur, res,
                   signals, fired, ownerPc, stops, stopCaught, call, proxyVars,
                   gatewayVars, cacheVars, appVars>>

\* await self._execute_task(task) is over: it returned a result or raised an Exception
TaskReturn(t) ==
    /\ pc[t] = "exec"
    /\ \E r \in {TaskResult(cur[t])} \cup Exceptions :
           res' = [res EXCEPT ![t] = r]
    /\ pc' = [pc EXCEPT ![t] = "report"]
    /\ UNCHANGED <<task_queue, thread, running, callback_counter, callbacks, cur, signals,
                   fired, ownerPc, stops, stopCaught, call, proxyVars, gatewayVars, cacheVars,
                   appVars>>

\* the emission that ends a task: operation_completed with the result, or, in the
\* except branch, operation_failed with str(e)
Notification(task, r) ==
    IF IsException(r)
    THEN Failed(task.callback_id, Str(r))
    ELSE Completed(task.callback_id, r)

\* a faulty report: no except branch, so a task's exception ends _worker_main
ReportUncaught(t) ==
    /\ pc[t] = "report"
    /\ IF IsException(res[t])
       THEN /\ ThreadEnds(t, "failed")
            /\ UNCHANGED <<signals, callbacks, fired, listener>>
       ELSE /\ Emit(t, Notification(cur[t], res[t]))
            /\ pc' = [pc EXCEPT ![t] = "loop"]
            /\ stopCaught' = stopCaught \ {t}
            /\ UNCHANGED proxyVars
    /\ cur' = [cur EXCEPT ![t] = NoTask]
    /\ res' = [res EXCEPT ![t] = NoValue]
    /\ UNCHANGED <<task_queue, thread, running, callback_counter, ownerPc, stops, call,
                   gatewayVars, cacheVars, appVars>>

\* the try/except around the task: emit, then go round the loop again
Report(t) ==
    /\ pc[t] = "report"
    /\ Emit(t, Notification(cur[t], res[t]))
    /\ pc' = [pc EXCEPT ![t] = "loop"]
    /\ cur' = [cur EXCEPT ![t] = NoTask]
    /\ res' = [res EXCEPT ![t] = NoValue]
    /\ stopCaught' = stopCaught \ {t}
    /\ UNCHANGED <<task_queue, thread, running, callback_counter, ownerPc, stops, call,
                   proxyVars, gatewayVars, cacheVars, appVars>>

WorkerStep(t) ==
    \/ Connect(t)
    \/ StartProxy(t)
    \/ LoopCheck(t)
    \/ GetNowait(t)
    \/ Wake(t)
    \/ TaskReturn(t)
    \/ Report(t)

\* ------------------------------------------------------------------ start, stop
\* threading.Thread(...).start() gives a thread that has not run before
Unborn == {t \in Threads : pc[t] = "unborn"}

\* self._thread is not None and self._thread.is_alive()
ThreadIsAlive == IF thread = None THEN FALSE ELSE Alive(thread)

\* start(): nothing when the thread of the handle is alive; else set _running and
\* start a new thread on _run_event_loop
Start ==
    /\ ownerPc = "idle"
    /\ IF ThreadIsAlive
       THEN UNCHANGED <<running, thread, pc>>
       ELSE /\ Unborn # {}
            /\ LET t == CHOOSE u \in Unborn : \A v \in Unborn : u <= v
               IN  /\ running' = TRUE
                   /\ thread' = t
                   /\ pc' = [pc EXCEPT ![t] = "connect"]
    /\ UNCHANGED <<task_queue, callback_counter, callbacks, cur, res, signals, fired,
                   ownerPc, stops, stopCaught, call, proxyVars, gatewayVars, cacheVars,
                   appVars>>

\* stop() up to the join: clear _running, put the STOP task, and join the thread of
\* the handle if there is one
StopBegin ==
    /\ ownerPc = "idle"
    /\ stops < MaxStops
    /\ stops' = stops + 1
    /\ running' = FALSE
    /\ task_queue' = Append(task_queue, StopTask)
    /\ stopCaught' = stopCaught \cup {t \in Threads : pc[t] = "exec"}
    /\ ownerPc' = IF thread # None THEN "join" ELSE "idle"
    /\ UNCHANGED <<thread, callback_counter, callbacks, pc, cur, res, signals, fired, call,
                   proxyVars, gatewayVars, cacheVars, appVars>>

\* a join without a timeout: it returns only when the thread has ended
JoinForever == ~Alive(thread)

\* self._thread.join(timeout=3.0) returns: the thread has ended, or the 3 seconds
\* have passed with the thread inside a remote call
JoinReturns == ~Alive(thread) \/ InRemoteCall(thread)

\* stop() from the join on: the join returns and the handle is dropped
StopJoin ==
    /\ ownerPc = "join"
    /\ JoinReturns
    /\ thread' = None
    /\ ownerPc' = "idle"
    /\ UNCHANGED <<task_queue, running, callback_counter, callbacks, pc, cur, res, signals,
                   fired, stops, stopCaught, call, proxyVars, gatewayVars, cacheVars,
                   appVars>>

\* ------------------------------------------------------------------ execute
\* the calls that have returned
Returned == {c \in Calls : call[c].pc = "done"}

\* self._callback_counter += 1, the read half: the counter is loaded
ExecLoad(c) ==
    /\ call[c].pc = "idle"
    /\ call' = [call EXCEPT ![c].pc = "loaded", ![c].tmp = callback_counter,
                            ![c].pre = Returned]
    /\ UNCHANGED <<task_queue, thread, running, callback_counter, callbacks, pc, cur, res,
                   signals, fired, ownerPc, stops, stopCaught, proxyVars, gatewayVars,
                   cacheVars, appVars>>

\* self._callback_counter += 1, the write half: the loaded value plus one is stored
ExecStore(c) ==
    /\ call[c].pc = "loaded"
    /\ callback_counter' = call[c].tmp + 1
    /\ call' = [call EXCEPT ![c].pc = "stored"]
    /\ UNCHANGED <<task_queue, thread, running, callbacks, pc, cur, res, signals, fired,
                   ownerPc, stops, stopCaught, proxyVars, gatewayVars, cacheVars,
                   appVars>>

\* callback_id = self._callback_counter
ExecReadId(c) ==
    /\ call[c].pc = "stored"
    /\ call' = [call EXCEPT ![c].pc = "read", ![c].callback_id = callback_counter]
    /\ UNCHANGED <<task_queue, thread, running, callback_counter, callbacks, pc, cur, res,
                   signals, fired, ownerPc, stops, stopCaught, proxyVars, gatewayVars,
                   cacheVars, appVars>>

\* self._callbacks[callback_id] = callback
ExecRegister(c) ==
    /\ call[c].pc = "read"
    /\ callbacks' = [k \in DOMAIN callbacks \cup {call[c].callback_id} |->
                        IF k = call[c].callback_id THEN c ELSE callbacks[k]]
    /\ call' = [call EXCEPT ![c].pc = "registered"]
    /\ UNCHANGED <<task_queue, thread, running, callback_counter, pc, cur, res, signals,
                   fired, ownerPc, stops, stopCaught, proxyVars, gatewayVars, cacheVars,
                   appVars>>

\* self._task_queue.put(TelegramTask(operation, kwargs, callback_id))
ExecPut(c) ==
    /\ call[c].pc = "registered"
    /\ \E op \in Ops :
           task_queue' = Append(task_queue, TelegramTask(op, call[c].callback_id))
    /\ call' = [call EXCEPT ![c].pc = "done"]
    /\ UNCHANGED <<thread, running, callback_counter, callbacks, pc, cur, res, signals,
                   fired, ownerPc, stops, stopCaught, proxyVars, gatewayVars, cacheVars,
                   appVars>>

\* the next call of a thread that makes its calls one after the other
NextCall == CHOOSE c \in Calls : call[c].pc = "idle" /\ \A d \in Calls : d < c => call[d].pc # "idle"

\* execute(operation, callback) called by the owning thread with one of the given
\* operations: no other thread touches the counter or the callback map, so the
\* whole call is one step
ExecuteWith(ops) ==
    /\ ownerPc = "idle"
    /\ \E c \in Calls : call[c].pc = "idle"
    /\ LET c == NextCall
           callback_id == callback_counter + 1
       IN  /\ callback_counter' = callback_id
           /\ callbacks' = [k \in DOMAIN callbacks \cup {callback_id} |->
                               IF k = callback_id THEN c ELSE callbacks[k]]
           /\ \E op \in ops :
                  task_queue' = Append(task_queue, TelegramTask(op, callback_id))
           /\ call' = [call EXCEPT ![c] = [pc |-> "done", tmp |-> callback_counter,
                                           callback_id |-> callback_id, pre |-> Returned]]
    /\ UNCHANGED <<thread, running, pc, cur, res, signals, fired, ownerPc, stops,
                   stopCaught, proxyVars, gatewayVars, cacheVars, appVars>>

Execute == ExecuteWith(Ops)

\* ------------------------------------------------------------------ delivery
\* the owner's event loop delivers the oldest queued emission to its slot
Deliver ==
    /\ ownerPc = "idle"
    /\ signals # <<>>
    /\ HandleSignal(Head(signals), "owner")
    /\ signals' = Tail(signals)
    /\ UNCHANGED <<task_queue, thread, running, callback_counter, pc, cur, res, ownerPc,
                   stops, stopCaught, call, proxyVars, gatewayVars, cacheVars, appVars>>

\* ------------------------------------------------------------------ streams
\* the loop that serves the HTTP listener is running and is free to run a handler
LoopServes == IF listener = None THEN FALSE ELSE Suspended(listener)

\* _handle_stream starts on a request: the response is prepared, chunks are to come
StreamRequest(s) ==
    /\ LoopServes
    /\ ~streams[s]
    /\ streams' = [streams EXCEPT ![s] = TRUE]
    /\ UNCHANGED <<workerVars, listener, gatewayVars, cacheVars, appVars>>

\* one chunk of iter_download is written to the response; after the last one the
\* handler returns
StreamChunk(s) ==
    /\ LoopServes
    /\ streams[s]
    /\ \E last \in BOOLEAN : streams' = [streams EXCEPT ![s] = ~last]
    /\ UNCHANGED <<workerVars, listener, gatewayVars, cacheVars, appVars>>

\* the write fails because the client went away: the handler breaks out of its loop
StreamDisconnect(s) ==
    /\ LoopServes
    /\ streams[s]
    /\ streams' = [streams EXCEPT ![s] = FALSE]
    /\ UNCHANGED <<workerVars, listener, gatewayVars, cacheVars, appVars>>

StreamStep(s) == StreamRequest(s) \/ StreamChunk(s) \/ StreamDisconnect(s)

\* ------------------------------------------------------------------ registration
\* a faulty registration: the stream id is made of the message id alone
get_stream_url_by_message(message_id, chat_id, file_size, message_obj) ==
    LET stream_id == Format(message_id)
    IN  /\ registrations' =
               [k \in DOMAIN registrations \cup {stream_id} |->
                   IF k = stream_id
                   THEN Registration(message_id, chat_id, file_size, message_obj)
                   ELSE registrations[k]]
        /\ issued' = Append(issued, [stream_id |-> stream_id, url |-> StreamUrl(stream_id)])

\* get_stream_url: the tuple is stored under the stream id, over whatever was stored
\* there, and the URL is returned
get_stream_url(message_id, chat_id, file_size, message_obj) ==
    LET stream_id == StreamId(chat_id, message_id)
    IN  /\ registrations' =
               [k \in DOMAIN registrations \cup {stream_id} |->
                   IF k = stream_id
                   THEN Registration(message_id, chat_id, file_size, message_obj)
                   ELSE registrations[k]]
        /\ issued' = Append(issued, [stream_id |-> stream_id, url |-> StreamUrl(stream_id)])

\* TelegramStreamingProxy.prepare_stream: the stream is registered with the size the
\* caller gives and no message object
PrepareStream ==
    /\ Len(issued) < MaxRegistrations
    /\ \E chat_id \in ChatIds, message_id \in MessageIds, file_size \in Sizes :
           get_stream_url(message_id, chat_id, file_size, NoMessage)
    /\ UNCHANGED <<workerVars, proxyVars, site, response, cacheVars, appVars>>

\* what client.get_messages(chat_id, ids=[message_id]) gives: the message, or none
GetMessages(chat_id, message_id) == Messages(chat_id, message_id) \cup {NoMessage}

\* a faulty check: only a missing message raises, a size of 0 does not
StreamUrlErrorNoSize(msg) ==
    IF msg = NoMessage THEN Value("ValueError", "Message not found") ELSE NoValue

\* what _execute_task raises for a GET_STREAM_URL task whose message is msg, if it raises
StreamUrlError(msg) ==
    IF msg = NoMessage THEN Value("ValueError", "Message not found")
    ELSE IF SizeOf(msg) = 0 THEN Value("ValueError", "Could not determine file size")
    ELSE NoValue

\* one GET_STREAM_URL task in the worker's loop: the message is fetched, a missing
\* message or a size of 0 raises, else the stream is registered with the message;
\* the result or the error is emitted
GetStreamUrlTask ==
    /\ Len(issued) < MaxRegistrations
    /\ Len(signals) < MaxRegistrations
    /\ \E chat_id \in ChatIds, message_id \in MessageIds :
       \E msg \in GetMessages(chat_id, message_id) :
           LET task == TelegramTask("GET_STREAM_URL", Len(signals) + 1)
           IN  IF StreamUrlError(msg) # NoValue
               THEN /\ Emit(0, Notification(task, StreamUrlError(msg)))
                    /\ UNCHANGED <<registrations, issued>>
               ELSE /\ get_stream_url(message_id, chat_id, SizeOf(msg), msg)
                    /\ Emit(0, Notification(task,
                               Value("str", StreamUrl(StreamId(chat_id, message_id)))))
    /\ UNCHANGED <<task_queue, thread, running, callback_counter, pc, cur, res, ownerPc,
                   stops, stopCaught, call, proxyVars, site, response, cacheVars,
                   appVars>>

\* await self._execute_task(task) is over for a GET_STREAM_URL task of thread t:
\* self._proxy is set whether or not its start() raised, so the task goes on to fetch
\* the message; a missing message or a size of 0 raises, else the stream is
\* registered and its URL is the result. The messages are those of the largest
\* size, those without media, and the missing one
StreamUrlReturn(t) ==
    /\ pc[t] = "exec"
    /\ cur[t].operation = "GET_STREAM_URL"
    /\ \E chat_id \in ChatIds, message_id \in MessageIds :
       \E msg \in {m \in GetMessages(chat_id, message_id) :
                       m.media \in {"file", "none", "NoneType"} /\ m.size \in {0, MaxSize}} :
           IF StreamUrlError(msg) # NoValue
           THEN /\ res' = [res EXCEPT ![t] = StreamUrlError(msg)]
                /\ UNCHANGED <<registrations, issued>>
           ELSE /\ Len(issued) < MaxRegistrations
                /\ get_stream_url(message_id, chat_id, SizeOf(msg), msg)
                /\ res' = [res EXCEPT ![t] =
                               Value("str", StreamUrl(StreamId(chat_id, message_id)))]
    /\ pc' = [pc EXCEPT ![t] = "report"]
    /\ UNCHANGED <<task_queue, thread, running, callback_counter, callbacks, cur, signals,
                   fired, ownerPc, stops, stopCaught, call, proxyVars, site, response,
                   cacheVars, appVars>>

\* ------------------------------------------------------------------ stream handler
\* the message the handler streams from: the registered one, or, when none was
\* registered, what get_messages gives when the handler fetches it (none, when the
\* fetch fails)
HandlerMessage(data) ==
    IF data.message # NoMessage THEN {data.message}
    ELSE {NoMessage} \cup {Message(data.chat_id, data.message_id, "document", size) :
                              size \in Sizes}

\* a faulty reply: an empty success for a stream id that is not registered
NotFoundAsEmpty(request) ==
    [NoResponse EXCEPT !.request = request, !.state = "done", !.status = 200,
                       !.header_names = {"Content-Type", "Content-Length"}]

\* the reply to a request for a stream id that is not registered
NotFound(request) ==
    [NoResponse EXCEPT !.request = request, !.state = "done", !.status = 404,
                       !.header_names = {"Content-Type", "Content-Length"}]

\* a ValueError leaves the handler before any response is made: the server answers 500
Raised(request, data) ==
    [NoResponse EXCEPT !.request = request, !.state = "raised", !.status = 500,
                       !.file_size = data.file_size,
                       !.header_names = {"Content-Type", "Content-Length"}]

\* the response _handle_stream prepares for a registered stream: the bounds are
\* parsed and clamped, the status is 206 with Content-Range when the Range header is
\* not empty and 200 otherwise, Content-Type is set, and the handler goes on to relay
\* when it has a message
Prepared(request, data, message) ==
    LET range_header == RangeHeader(request)
        parsed == ParseRange(range_header, data.file_size)
        start == ClampStart(parsed.start, data.file_size)
        end == ClampEnd(start, parsed.end, data.file_size)
    IN  [NoResponse EXCEPT
            !.request = request,
            !.state = IF message = NoMessage THEN "done" ELSE "streaming",
            !.file_size = data.file_size,
            !.message = message,
            !.start = start,
            !.end = end,
            !.content_length = end - start + 1,
            !.status = IF range_header # <<>> THEN 206 ELSE 200,
            !.header_names = IF range_header # <<>>
                             THEN {"Content-Range", "Content-Type"}
                             ELSE {"Content-Type"},
            !.content_range = IF range_header # <<>>
                              THEN ContentRange(start, end, data.file_size)
                              ELSE <<>>]

\* _handle_stream up to response.prepare, on a request the listener accepted
HandleStream(s, request) ==
    /\ site
    /\ response[s].state = "none"
    /\ IF request.stream_id \notin DOMAIN registrations
       THEN response' = [response EXCEPT ![s] = NotFound(request)]
       ELSE LET data == registrations[request.stream_id]
            IN  IF ParseRange(RangeHeader(request), data.file_size).raises
                THEN response' = [response EXCEPT ![s] = Raised(request, data)]
                ELSE \E message \in HandlerMessage(data) :
                         response' = [response EXCEPT ![s] = Prepared(request, data, message)]
    /\ UNCHANGED <<workerVars, proxyVars, registrations, site, issued, cacheVars,
                   appVars>>

\* a faulty download: the limit is taken as a number of chunks, not of bytes
IterDownloadChunks(message, offset, limit, yielded) ==
    LET from == offset + yielded * chunk_size
        left == IF yielded < limit THEN message.size - from ELSE 0
    IN  [i \in 1..Min(chunk_size, left) |-> from + i - 1]

\* the chunk that iter_download(media, offset, limit, chunk_size) yields after it has
\* yielded `yielded` chunks: at most chunk_size bytes, of the limit bytes that start at
\* offset and of the bytes the object has; empty when the download is over
IterDownload(message, offset, limit, yielded) ==
    LET from == offset + yielded * chunk_size
        left == Min(limit - yielded * chunk_size, message.size - from)
    IN  [i \in 1..Min(chunk_size, left) |-> from + i - 1]

NextChunk(r) == IterDownload(r.message, r.start, r.content_length, r.chunks)

\* a chunk is yielded and response.write(chunk) returns
RelayChunk(s) ==
    /\ response[s].state = "streaming"
    /\ NextChunk(response[s]) # <<>>
    /\ response' = [response EXCEPT ![s].chunks = @ + 1,
                                    ![s].written = @ \o NextChunk(response[s])]
    /\ UNCHANGED <<workerVars, proxyVars, registrations, site, issued, cacheVars,
                   appVars>>

\* the download is over: the loop ends and the handler returns the response
RelayEnds(s) ==
    /\ response[s].state = "streaming"
    /\ NextChunk(response[s]) = <<>>
    /\ response' = [response EXCEPT ![s].state = "done"]
    /\ UNCHANGED <<workerVars, proxyVars, registrations, site, issued, cacheVars,
                   appVars>>

\* a faulty handler: a failed write is logged and the loop goes on to the next chunk
WriteFailsContinue(s) ==
    /\ response[s].state = "streaming"
    /\ NextChunk(response[s]) # <<>>
    /\ response' = [response EXCEPT ![s].chunks = @ + 1, ![s].write_failed = TRUE]
    /\ UNCHANGED <<workerVars, proxyVars, registrations, site, issued, cacheVars,
                   appVars>>

\* a chunk is yielded and response.write(chunk) raises, the client being gone: the
\* handler breaks out of the loop and returns the response
WriteFails(s) ==
    /\ response[s].state = "streaming"
    /\ NextChunk(response[s]) # <<>>
    /\ response' = [response EXCEPT ![s].chunks = @ + 1, ![s].write_failed = TRUE,
                                    ![s].state = "done"]
    /\ UNCHANGED <<workerVars, proxyVars, registrations, site, issued, cacheVars,
                   appVars>>

\* iter_download raises, or the handler's task is cancelled: the except branches
\* return the response
DownloadFails(s) ==
    /\ response[s].state = "streaming"
    /\ response' = [response EXCEPT ![s].state = "done", ![s].download_failed = TRUE]
    /\ UNCHANGED <<workerVars, proxyVars, registrations, site, issued, cacheVars,
                   appVars>>

\* StreamingProxy.stop(): the listener is closed and the registrations are cleared
ProxyStop ==
    /\ site
    /\ site' = FALSE
    /\ registrations' = <<>>
    /\ UNCHANGED <<workerVars, proxyVars, response, issued, cacheVars, appVars>>

\* StreamingProxy.start() on a stopped proxy: the listener accepts requests again
ProxyStart ==
    /\ ~site
    /\ site' = TRUE
    /\ UNCHANGED <<workerVars, proxyVars, registrations, response, issued, cacheVars,
                   appVars>>

\* ------------------------------------------------------------------ requests
\* the numbers a Range header can name, written out, and the empty str
Numerals == {<<>>} \cup {Format(n) : n \in 0..(MaxSize + 1)}

\* Range headers of the form bytes=first-last, either bound possibly left out
ByteRanges == {BytesEq \o first \o <<"-">> \o last : first, last \in Numerals}

\* Range headers that are not of that form: a bound that is no number, several
\* ranges, another unit, no '-' at all
OtherRanges ==
    {BytesEq \o <<"a", "-">>,
     BytesEq \o <<"0", "-", "x">>,
     BytesEq \o <<"0", "-", "0", ",", "1", "-", "1">>,
     <<"i", "t", "e", "m", "s", "=", "0", "-", "1">>,
     BytesEq \o <<"1">>}

\* the stream ids a request can name: the one of any object, and one of no object
RequestIds == {StreamId(chat_id, message_id) : chat_id \in ChatIds, message_id \in MessageIds}
              \cup {<<"x">>}

\* the GET /stream/{stream_id} requests a client can make
Requests ==
    {Request(stream_id, FALSE, <<>>) : stream_id \in RequestIds}
    \cup {Request(stream_id, TRUE, range) :
             stream_id \in RequestIds, range \in ByteRanges \cup OtherRanges}

\* the requests of a player: for a stream id it was given or for one of no object,
\* with no Range header or an open-ended one
PlayerRequests ==
    LET ids == {issued[i].stream_id : i \in 1..Len(issued)} \cup {<<"x">>}
    IN  {Request(stream_id, FALSE, <<>>) : stream_id \in ids}
        \cup {Request(stream_id, TRUE, BytesEq \o <<"1", "-">>) : stream_id \in ids}

\* the steps of a handler that has prepared its response
RelayStep(s) ==
    \/ RelayChunk(s)
    \/ RelayEnds(s)
    \/ WriteFails(s)
    \/ DownloadFails(s)

\* ------------------------------------------------------------------ cache manager
\* SELECT SUM(file_size) FROM cache_entries, and 0 for the NULL of an empty table
RECURSIVE get_current_size(_)
get_current_size(rows) ==
    IF rows = {} THEN 0
    ELSE LET row == CHOOSE r \in rows : TRUE
         IN  row.file_size + get_current_size(rows \ {row})

\* a DELETE that removes no row
KeepEntry(rows, file_id) == rows

\* DELETE FROM cache_entries WHERE file_id = ?
_remove_entry(rows, file_id) == {r \in rows : r.file_id # file_id}

\* an INSERT into a table without a primary key
Insert(rows, entry) == rows \cup {entry}

\* INSERT OR REPLACE INTO cache_entries: file_id is the primary key of the table, so
\* the row that has the entry's file_id is deleted before the entry is inserted
InsertOrReplace(rows, entry) == _remove_entry(rows, entry.file_id) \cup {entry}

\* a call that deletes entries, as it starts: the index, the files, the bytes it
\* freed, the rows it removed, the files it unlinked, whether a deletion raised, and
\* whether it returns
Started(rows, paths) ==
    [rows |-> rows, files |-> paths, freed |-> 0, removed |-> 0, unlinked |-> 0,
     failed |-> FALSE, returned |-> TRUE]

\* a deletion that counts the size of an entry only when its file was there
DeleteCountingFiles(c, row, failing) ==
    IF row.file_path \in c.files /\ row.file_id \in failing
    THEN [c EXCEPT !.failed = TRUE]
    ELSE [c EXCEPT !.rows = {r \in c.rows : r.file_id # row.file_id},
                   !.files = c.files \ {row.file_path},
                   !.freed = c.freed + IF row.file_path \in c.files
                                       THEN row.file_size ELSE 0,
                   !.removed = c.removed + 1]

\* _delete_cached_file: unlink is called when the file exists; it raises for the
\* files in failing (a file that another program holds open, a directory that is
\* read-only), and the except branch then returns 0 and leaves the row in place
_delete_cached_file(c, row, failing) ==
    IF row.file_path \in c.files /\ row.file_id \in failing
    THEN [c EXCEPT !.failed = TRUE]
    ELSE [c EXCEPT !.rows = _remove_entry(c.rows, row.file_id),
                   !.files = c.files \ {row.file_path},
                   !.freed = c.freed + row.file_size,
                   !.removed = c.removed + 1,
                   !.unlinked = c.unlinked + IF row.file_path \in c.files THEN 1 ELSE 0]

\* for file_id, file_path, file_size in cursor.fetchall(): _delete_cached_file(...)
RECURSIVE DeleteFetched(_, _, _)
DeleteFetched(c, fetched, failing) ==
    IF fetched = {} THEN c
    ELSE LET row == CHOOSE r \in fetched : TRUE
         IN  DeleteFetched(_delete_cached_file(c, row, failing), fetched \ {row}, failing)

\* an age pass that also runs under a retention of 0
StaleFromZero(rows, s, current_time) ==
    IF s.retention_period >= 0
    THEN {r \in rows : r.last_access < current_time - s.retention_period}
    ELSE {}

\* the rows the age pass of cleanup() selects at current_time
Stale(rows, s, current_time) ==
    IF s.retention_period > 0
    THEN {r \in rows : r.last_access < current_time - s.retention_period}
    ELSE {}

\* the rows that were used last
Newest(rows) == {r \in rows : \A q \in rows : r.last_access >= q.last_access}

\* the rows that ORDER BY last_access ASC LIMIT 1 can give: SQL leaves the order of
\* rows with equal last_access open
Oldest(rows) == {r \in rows : \A q \in rows : r.last_access <= q.last_access}

\* a size pass that deletes one entry at most
SizePassOnce(c, s, failing) ==
    IF get_current_size(c.rows) <= s.size_limit \/ c.rows = {}
    THEN {c}
    ELSE {_delete_cached_file(c, row, failing) : row \in Oldest(c.rows)}

\* a size pass that, once the sum is above the limit, deletes every entry
SizePassAll(c, s, failing) ==
    IF get_current_size(c.rows) <= s.size_limit \/ c.rows = {}
    THEN {c}
    ELSE {DeleteFetched(c, c.rows, failing)}

\* the size pass of cleanup(): the outcomes of the while loop. A deletion that raised
\* left the table as it was, so the loop selects the same row again, forever
RECURSIVE SizePass(_, _, _)
SizePass(c, s, failing) ==
    IF get_current_size(c.rows) <= s.size_limit \/ c.rows = {}
    THEN {c}
    ELSE UNION {LET d == _delete_cached_file(c, row, failing)
                IN  IF d.rows = c.rows
                    THEN {[d EXCEPT !.returned = FALSE]}
                    ELSE SizePass(d, s, failing) : row \in Oldest(c.rows)}

\* cleanup(): the outcomes of the age pass followed by the size pass, for every set
\* of files on which unlink raises during the call
cleanup(rows, paths, s, current_time) ==
    UNION {SizePass(DeleteFetched(Started(rows, paths), Stale(rows, s, current_time),
                                  failing), s, failing) :
           failing \in SUBSET {r.file_id : r \in {q \in rows : q.file_path \in paths}}}

\* a clear_all() that deletes the entries whose file exists and no other
ClearFiles(rows, paths) ==
    {DeleteFetched(Started(rows, paths), {q \in rows : q.file_path \in paths}, failing) :
        failing \in SUBSET {r.file_id : r \in {q \in rows : q.file_path \in paths}}}

\* clear_all(): its outcomes, for every set of files on which unlink raises
clear_all(rows, paths) ==
    {DeleteFetched(Started(rows, paths), rows, failing) :
        failing \in SUBSET {r.file_id : r \in {q \in rows : q.file_path \in paths}}}

\* the caller is outside the cache manager: no call is in progress in any flow, none
\* is stuck in cleanup(), and the result of the last one was taken
CacheIdle == lastCall = NoCall /\ \A f \in DOMAIN flow : flow[f] = Outside

\* the record of a call: what it was given and what it returned, whether its INSERT
\* OR REPLACE replaced a row, and what its deletions did
Called(op, file_id, ret, c) ==
    [op |-> op, file_id |-> file_id, ret |-> ret,
     replaced |-> op = "add_entry" /\ \E r \in cache_entries : r.file_id = file_id,
     removed |-> c.removed, unlinked |-> c.unlinked, failed |-> c.failed,
     returned |-> c.returned]

\* the entries a caller can add (message_id, chat_id and download_time are stored
\* and never read back): of a file of the run, which is cached in a file named after
\* its file_id, stamped now or earlier
Entries ==
    {[file_id |-> file_id, file_path |-> file_id, file_size |-> FileSize(file_id),
      last_access |-> last_access] : file_id \in FileIds, last_access \in 0..now}

\* add_entry(entry), with the cleanup() it triggers
AddEntry(entry) ==
    /\ CacheIdle
    /\ \E c \in IF settings.auto_cleanup_enabled
                THEN cleanup(InsertOrReplace(cache_entries, entry), files, settings, now)
                ELSE {Started(InsertOrReplace(cache_entries, entry), files)} :
          /\ cache_entries' = c.rows
          /\ files' = c.files
          /\ lastCall' = Called("add_entry", entry.file_id, None, c)
    /\ UNCHANGED <<settings, now, flow, workerVars, proxyVars, gatewayVars, appVars>>

\* an UPDATE that changes no row
KeepAccessTime(rows, file_id, current_time) == rows

\* UPDATE cache_entries SET last_access = time.time() WHERE file_id = ?
update_access_time(rows, file_id, current_time) ==
    {IF r.file_id = file_id THEN [r EXCEPT !.last_access = current_time] ELSE r : r \in rows}

\* get_cached_path(file_id) at current_time: the index it leaves, what it returns,
\* and the rows its _remove_entry removed
get_cached_path(rows, paths, file_id, current_time) ==
    LET selected == {r \in rows : r.file_id = file_id}
        row == CHOOSE r \in selected : TRUE
    IN  IF selected = {}
        THEN [rows |-> rows, ret |-> None, removed |-> 0]
        ELSE IF row.file_path \in paths
             THEN [rows |-> update_access_time(rows, file_id, current_time),
                   ret |-> row.file_path, removed |-> 0]
             ELSE [rows |-> _remove_entry(rows, file_id), ret |-> None, removed |-> 1]

\* a call of get_cached_path(file_id)
GetCachedPath(file_id) ==
    /\ CacheIdle
    /\ LET got == get_cached_path(cache_entries, files, file_id, now)
       IN  /\ cache_entries' = got.rows
           /\ lastCall' = Called("get_cached_path", file_id, got.ret,
                                 [Started({}, {}) EXCEPT !.removed = got.removed])
    /\ UNCHANGED <<files, settings, now, flow, workerVars, proxyVars, gatewayVars,
                   appVars>>

\* cleanup(), called on its own
Cleanup ==
    /\ CacheIdle
    /\ \E c \in cleanup(cache_entries, files, settings, now) :
          /\ cache_entries' = c.rows
          /\ files' = c.files
          /\ lastCall' = Called("cleanup", None, c.freed, c)
    /\ UNCHANGED <<settings, now, flow, workerVars, proxyVars, gatewayVars, appVars>>

\* clear_all()
ClearAll ==
    /\ CacheIdle
    /\ \E c \in clear_all(cache_entries, files) :
          /\ cache_entries' = c.rows
          /\ files' = c.files
          /\ lastCall' = Called("clear_all", None, c.freed, c)
    /\ UNCHANGED <<settings, now, flow, workerVars, proxyVars, gatewayVars, appVars>>

\* the storage screen saves the settings, which it takes from SIZE_OPTIONS and
\* RETENTION_OPTIONS, and with auto cleanup on runs cleanup()
SaveSettings(s) ==
    /\ CacheIdle
    /\ s.retention_period \in {UNLIMITED, WEEK_1}
    /\ settings' = s
    /\ \E c \in IF s.auto_cleanup_enabled
                THEN cleanup(cache_entries, files, s, now)
                ELSE {Started(cache_entries, files)} :
          /\ cache_entries' = c.rows
          /\ files' = c.files
          /\ lastCall' = Called("save", None, c.freed, c)
    /\ UNCHANGED <<now, flow, workerVars, proxyVars, gatewayVars, appVars>>

\* the caller takes what the call returned; a call that does not return keeps it
Return ==
    /\ lastCall # NoCall
    /\ lastCall.returned
    /\ lastCall' = NoCall
    /\ UNCHANGED <<cache_entries, files, settings, now, flow, workerVars, proxyVars,
                   gatewayVars, appVars>>

\* time passes, between calls or while a call does not return
Tick ==
    /\ lastCall = NoCall \/ ~lastCall.returned
    /\ now < MaxTime
    /\ now' = now + 1
    /\ UNCHANGED <<cache_entries, files, settings, lastCall, flow, workerVars, proxyVars,
                   gatewayVars, appVars>>

\* outside the cache manager, the download of file_id writes its file under
\* cache_dir, or the file is deleted
FileChanged(file_id) ==
    /\ lastCall = NoCall \/ ~lastCall.returned
    /\ files' = IF file_id \in files THEN files \ {file_id} ELSE files \cup {file_id}
    /\ UNCHANGED <<cache_entries, settings, now, lastCall, flow, workerVars, proxyVars,
                   gatewayVars, appVars>>

\* ------------------------------------------------------------------ cache flows
\* The manager opens its connection with check_same_thread=False and takes no lock:
\* a call made by one flow runs statement by statement (a SELECT, path.exists(), an
\* UPDATE, a DELETE, an unlink) between the statements of the calls of other flows.

\* what the flow f does from now on
Goes(f, at, op, file_id, fetched) ==
    flow' = [flow EXCEPT ![f] = [pc |-> at, op |-> op, file_id |-> file_id,
                                 fetched |-> fetched]]

\* get_cached_path(file_id) by the flow f: the SELECT that finds a row (without one
\* the call returns None at once), path.exists(), then update_access_time or
\* _remove_entry
StepGetCachedPath(f, file_id) ==
    /\ lastCall = NoCall
    /\ \/ /\ flow[f] = Outside
          /\ \E row \in cache_entries : row.file_id = file_id
          /\ Goes(f, "row", "get_cached_path", file_id, {})
          /\ UNCHANGED <<cache_entries, files>>
       \/ /\ flow[f].pc = "row"
          /\ flow[f].file_id = file_id
          /\ Goes(f, IF file_id \in files THEN "exists" ELSE "missing",
                  "get_cached_path", file_id, {})
          /\ UNCHANGED <<cache_entries, files>>
       \/ /\ flow[f].pc = "exists"
          /\ flow[f].file_id = file_id
          /\ cache_entries' = update_access_time(cache_entries, file_id, now)
          /\ Goes(f, "outside", "none", None, {})
          /\ UNCHANGED files
       \/ /\ flow[f].pc = "missing"
          /\ flow[f].file_id = file_id
          /\ cache_entries' = _remove_entry(cache_entries, file_id)
          /\ Goes(f, "outside", "none", None, {})
          /\ UNCHANGED files
    /\ UNCHANGED <<settings, now, lastCall, workerVars, proxyVars, gatewayVars, appVars>>

\* cleanup() by the flow f, called from outside or by add_entry: the SELECT of the
\* age pass, then one _delete_cached_file after the other (path.exists() and unlink,
\* then _remove_entry) for the rows it fetched and for the oldest row while the sum
\* is above the limit
StepCleanup(f) ==
    /\ lastCall = NoCall
    /\ \/ /\ \/ flow[f] = Outside
             \/ flow[f].pc = "inserted" /\ settings.auto_cleanup_enabled
          /\ Goes(f, "cleanup", "cleanup", None, Stale(cache_entries, settings, now))
          /\ UNCHANGED <<cache_entries, files>>
       \/ /\ flow[f].pc = "cleanup"
          /\ \E row \in IF flow[f].fetched # {} THEN flow[f].fetched
                         ELSE IF get_current_size(cache_entries) > settings.size_limit
                              THEN Oldest(cache_entries) ELSE {} :
                /\ files' = files \ {row.file_path}
                /\ Goes(f, "unlinked", "cleanup", row.file_id, flow[f].fetched \ {row})
          /\ UNCHANGED cache_entries
       \/ /\ flow[f].pc = "unlinked"
          /\ cache_entries' = _remove_entry(cache_entries, flow[f].file_id)
          /\ Goes(f, "cleanup", "cleanup", None, flow[f].fetched)
          /\ UNCHANGED files
       \/ /\ flow[f].pc = "cleanup"
          /\ flow[f].fetched = {}
          /\ \/ get_current_size(cache_entries) <= settings.size_limit
             \/ cache_entries = {}
          /\ Goes(f, "outside", "none", None, {})
          /\ UNCHANGED <<cache_entries, files>>
    /\ UNCHANGED <<settings, now, lastCall, workerVars, proxyVars, gatewayVars, appVars>>

\* an admission by the flow f: add_entry(entry) runs its INSERT OR REPLACE and,
\* without auto cleanup, returns. The caller has put the file of the entry on disk;
\* no other flow runs between the end of that write and the INSERT, which leaves
\* out interleavings that no statement of the manager is part of
StepAddEntry(f, entry) ==
    /\ lastCall = NoCall
    /\ \/ /\ flow[f] = Outside
          /\ files' = files \cup {entry.file_path}
          /\ cache_entries' = InsertOrReplace(cache_entries, entry)
          /\ Goes(f, "inserted", "add_entry", entry.file_id, {})
       \/ /\ flow[f].pc = "inserted"
          /\ flow[f].file_id = entry.file_id
          /\ ~settings.auto_cleanup_enabled
          /\ Goes(f, "outside", "none", None, {})
          /\ UNCHANGED <<cache_entries, files>>
    /\ UNCHANGED <<settings, now, lastCall, workerVars, proxyVars, gatewayVars, appVars>>

\* ------------------------------------------------------------------ specifications
\* the worker and its owner
Next ==
    \/ Start
    \/ StopBegin
    \/ StopJoin
    \/ Execute
    \/ Deliver
    \/ \E t \in Threads : WorkerStep(t)

Spec == Init /\ [][Next]_vars

\* a worker that is started and not stopped, its owner, and the stream responses
\* relayed on the worker's loop
RunNext ==
    \/ Start
    \/ Execute
    \/ Deliver
    \/ \E t \in Threads : WorkerStep(t)
    \/ \E s \in Streams : StreamStep(s)

\* a worker thread's steps that wait for nothing outside the process
LocalStep(t) ==
    \/ StartProxy(t)
    \/ LoopCheck(t)
    \/ GetNowait(t)
    \/ Wake(t)
    \/ Report(t)

\* the threads are scheduled, the owner's event loop runs and a join comes back; a
\* remote call may never return
FairSpec ==
    /\ Spec
    /\ \A t \in Threads : WF_vars(LocalStep(t))
    /\ WF_vars(StopJoin)
    /\ WF_vars(Deliver)

\* the running worker under fair scheduling of its threads and of the owner's event
\* loop, where every remote call returns or raises
LiveSpec ==
    /\ Init /\ [][RunNext]_vars
    /\ \A t \in Threads : WF_vars(WorkerStep(t))
    /\ WF_vars(StopJoin)
    /\ WF_vars(Deliver)

\* execute() called from several threads at once, a call per thread, each call in
\* the steps the interpreter can switch threads between
ExecuteStep(c) ==
    \/ ExecLoad(c)
    \/ ExecStore(c)
    \/ ExecReadId(c)
    \/ ExecRegister(c)
    \/ ExecPut(c)

ConcNext ==
    \/ Start
    \/ \E c \in Calls : ExecuteStep(c)
    \/ Deliver
    \/ \E t \in Threads : WorkerStep(t)

ConcSpec == Init /\ [][ConcNext]_vars

\* one stream response of a proxy with a registered stream, for every request
OneStream == CHOOSE s \in Streams : TRUE

RangeNext ==
    \/ \E request \in Requests : HandleStream(OneStream, request)
    \/ RelayStep(OneStream)

RangeSpec == RegisteredInit /\ [][RangeNext]_vars

\* the registrations made on a proxy by the worker's tasks and by prepare_stream,
\* and its stop() and start()
RegisterNext ==
    \/ PrepareStream
    \/ GetStreamUrlTask
    \/ ProxyStop
    \/ ProxyStart

RegisterSpec == Init /\ [][RegisterNext]_vars

\* the stream responses of a proxy with a registered stream, relayed side by side
\* on the loop while callers queue tasks, and the proxy's stop() and start()
GatewayNext ==
    \/ \E s \in Streams : \E request \in PlayerRequests : HandleStream(s, request)
    \/ \E s \in Streams : RelayStep(s)
    \/ ProxyStop
    \/ ProxyStart
    \/ Execute

GatewaySpec == WorkerRegisteredInit /\ [][GatewayNext]_vars

\* a worker that is started and not stopped, with the startup of its threads in
\* detail and GET_STREAM_URL tasks
SessionNext ==
    \/ Start
    \/ ExecuteWith({"GET_STREAM_URL"})
    \/ Deliver
    \/ \E t \in Threads :
          \/ ConnectSession(t)
          \/ StartProxy(t)
          \/ ProxyStartFails(t)
          \/ LoopCheck(t)
          \/ GetNowait(t)
          \/ Wake(t)
          \/ StreamUrlReturn(t)
          \/ Report(t)

SessionSpec == Init /\ [][SessionNext]_vars

\* the same worker with stop()
ShutdownNext ==
    \/ SessionNext
    \/ StopBegin
    \/ StopJoin

ShutdownSpec == Init /\ [][ShutdownNext]_vars

\* get_available_size_limits(): the disk usage is read anew at each call
GetAvailableSizeLimits ==
    /\ \E free \in FreeSpace :
          disk' = [free |-> free, limits |-> get_available_size_limits(free)]
    /\ UNCHANGED <<workerVars, proxyVars, gatewayVars, cacheVars, session, scan, service>>

\* the frame of the VideoService's operations
ServiceOnly == UNCHANGED <<workerVars, proxyVars, gatewayVars, cacheVars, session, disk, scan>>

PlayFiles ==
    /\ \E paths \in Playlists :
          LET added == add_files(cleanup_playlist(service), paths)
          IN  service' = IF added.playlist # <<>> THEN play_at_index(added, 0) ELSE added
    /\ ServiceOnly

AddFiles ==
    /\ \E paths \in Playlists :
          /\ Len(service.playlist) + Len(paths) <= MaxPlaylist
          /\ Len(service.original_playlist) + Len(paths) <= MaxPlaylist
          /\ service' = add_files(service, paths)
    /\ ServiceOnly

PlayAtIndex ==
    /\ \E index \in -1..MaxPlaylist : service' = play_at_index(service, index)
    /\ ServiceOnly

PlayNext ==
    /\ service' =
          IF cur_has_next(service) THEN play_at_index(service, service.current_index + 1)
          ELSE IF service.loop_mode = "LOOP_ALL" /\ service.playlist # <<>>
          THEN play_at_index(service, 0)
          ELSE service
    /\ ServiceOnly

PlayPrevious ==
    /\ service' =
          IF service.current_index > 0
          THEN play_at_index(service, service.current_index - 1)
          ELSE IF service.loop_mode = "LOOP_ALL" /\ service.playlist # <<>>
          THEN play_at_index(service, Len(service.playlist) - 1)
          ELSE service
    /\ ServiceOnly

CleanupPlaylist ==
    /\ service' = cleanup_playlist(service)
    /\ ServiceOnly

SetLoopMode ==
    /\ \E mode \in LoopModes : service' = [service EXCEPT !.loop_mode = mode]
    /\ ServiceOnly

\* toggle_shuffle(): switched on, original_playlist is filled if it is empty, the
\* playlist is shuffled and the index follows the video it was on; switched off,
\* the playlist is restored from a non-empty original_playlist and the index
\* follows the video it was on, or falls back to 0
ToggleShuffle ==
    /\ LET current_video ==
               IF 0 <= service.current_index /\ service.current_index < Len(service.playlist)
               THEN service.playlist[service.current_index + 1]
               ELSE None
       IN  IF ~service.is_shuffled
           THEN \E shuffled \in Shuffles(service.playlist) :
                   service' =
                      [service EXCEPT
                          !.is_shuffled = TRUE,
                          !.original_playlist = IF @ = <<>> THEN service.playlist ELSE @,
                          !.playlist = shuffled,
                          !.current_index = IF current_video # None
                                            THEN ListIndex(shuffled, current_video)
                                            ELSE @]
           ELSE LET restored == IF service.original_playlist # <<>>
                                THEN service.original_playlist
                                ELSE service.playlist
                IN  service' =
                       [service EXCEPT
                           !.is_shuffled = FALSE,
                           !.playlist = restored,
                           !.current_index =
                               IF current_video # None /\ Contains(restored, current_video)
                               THEN ListIndex(restored, current_video)
                               ELSE 0]
    /\ ServiceOnly

UpdatePlaylist ==
    /\ \E new_playlist \in Playlists :
          service' =
             [service EXCEPT
                 !.playlist = new_playlist,
                 !.original_playlist = IF ~service.is_shuffled THEN new_playlist ELSE @,
                 !.current_index =
                     IF service.current_video # None
                        /\ Contains(new_playlist, service.current_video)
                     THEN ListIndex(new_playlist, service.current_video)
                     ELSE -1]
    /\ ServiceOnly

\* reorder_playlist(from_index, to_index): the item is moved in the playlist and the
\* index follows; when not shuffled the same move is made in original_playlist,
\* whose pop raises IndexError when it is shorter than from_index
ReorderPlaylist ==
    /\ \E from_index, to_index \in -1..MaxPlaylist :
          LET n == Len(service.playlist)
              current == service.current_index
              moved ==
                 [service EXCEPT
                     !.playlist = ListInsert(ListPop(@, from_index), to_index,
                                             service.playlist[from_index + 1]),
                     !.current_index =
                         IF current = from_index THEN to_index
                         ELSE IF from_index < current /\ current <= to_index THEN current - 1
                         ELSE IF to_index <= current /\ current < from_index THEN current + 1
                         ELSE current]
          IN  IF 0 <= from_index /\ from_index < n /\ 0 <= to_index /\ to_index < n
              THEN IF ~service.is_shuffled /\ from_index < Len(service.original_playlist)
                   THEN service' =
                           [moved EXCEPT !.original_playlist =
                               ListInsert(ListPop(@, from_index), to_index,
                                          service.original_playlist[from_index + 1])]
                   ELSE service' = moved
              ELSE service' = service
    /\ ServiceOnly

\* remove_from_playlist(index): the item is popped; when not shuffled it is removed
\* from original_playlist, which raises ValueError when it is not there; the index
\* moves down for an item before it; for the item it is on, the item now at the
\* index or the last one is played, or, the playlist being empty, stop() is called
RemoveFromPlaylist ==
    /\ \E index \in -1..MaxPlaylist :
          IF 0 <= index /\ index < Len(service.playlist)
          THEN LET removed == service.playlist[index + 1]
                   popped == [service EXCEPT !.playlist = ListPop(@, index)]
                   t == IF service.is_shuffled THEN popped
                        ELSE [popped EXCEPT !.original_playlist = ListRemove(@, removed)]
               IN  IF ~service.is_shuffled /\ ~Contains(service.original_playlist, removed)
                   THEN service' = popped
                   ELSE service' =
                           IF index < t.current_index
                           THEN [t EXCEPT !.current_index = @ - 1]
                           ELSE IF index = t.current_index
                           THEN IF cur_has_next(t) THEN play_at_index(t, t.current_index)
                                ELSE IF t.playlist # <<>>
                                THEN play_at_index(t, Len(t.playlist) - 1)
                                ELSE t
                           ELSE t
          ELSE service' = service
    /\ ServiceOnly

ServiceNext ==
    \/ PlayFiles
    \/ AddFiles
    \/ PlayAtIndex
    \/ PlayNext
    \/ PlayPrevious
    \/ CleanupPlaylist
    \/ SetLoopMode
    \/ ToggleShuffle
    \/ UpdatePlaylist
    \/ ReorderPlaylist
    \/ RemoveFromPlaylist

\* the player screen calling the VideoService's playlist operations in any order
ServiceSpec == Init /\ [][ServiceNext]_vars

\* find_moov_position(read_chunk, file_size) is called: offset = 0
FindMoovPosition ==
    /\ scan.pc \in {"idle", "done"}
    /\ \E file_size \in 0..MaxTotal :
          scan' = [NoScan EXCEPT !.pc = "loop", !.file_size = file_size]
    /\ UNCHANGED <<workerVars, proxyVars, gatewayVars, cacheVars, session, disk, service>>

\* one turn of `while offset < file_size`: the loop is left with None, or the
\* header at offset is read and the body of the loop runs
ReadHeader ==
    /\ scan.pc = "loop"
    /\ IF scan.offset < scan.file_size
       THEN \E header_data \in HeaderData :
               scan' = AfterHeader([scan EXCEPT !.visited =
                                       Append(@, [offset |-> scan.offset,
                                                  header_data |-> header_data])],
                                   header_data)
       ELSE scan' = [scan EXCEPT !.pc = "done"]
    /\ UNCHANGED <<workerVars, proxyVars, gatewayVars, cacheVars, session, disk, service>>

MoovNext ==
    \/ FindMoovPosition
    \/ ReadHeader

\* calls of find_moov_position one after the other, each read returning in the end
MoovSpec == Init /\ [][MoovNext]_vars /\ WF_vars(ReadHeader)

\* the storage settings screen asking for the size limits again and again
LimitsSpec == Init /\ [][GetAvailableSizeLimits]_vars

\* a cache manager constructed with one of the given settings on an empty cache
\* directory, the worker and the proxy as in Init
CacheStart(given) ==
    /\ WorkerInit
    /\ registrations = <<>>
    /\ site = TRUE
    /\ response = [s \in Streams |-> NoResponse]
    /\ issued = <<>>
    /\ \E s \in given : CacheInit(s)

\* the cache manager alone, each call running from start to end
CacheNext ==
    \/ \E entry \in Entries : AddEntry(entry)
    \/ \E file_id \in FileIds : GetCachedPath(file_id)
    \/ Cleanup
    \/ ClearAll
    \/ \E s \in AllSettings : SaveSettings(s)
    \/ Return
    \/ Tick
    \/ \E file_id \in FileIds : FileChanged(file_id)

CacheSpec == CacheStart(AllSettings) /\ [][CacheNext]_vars

\* four entries A, B, C, D (file_id 1 to 4) of 40 units each are added in this order
\* to an empty cache with a size limit of 100 units and auto cleanup on, each at a
\* later time than the one before and stamped with the time at which it is added
ScenarioEntry ==
    [file_id |-> now + 1, file_path |-> now + 1, file_size |-> 40, last_access |-> now]

ScenarioNext ==
    \/ now + 1 <= 4 /\ AddEntry(ScenarioEntry)
    \/ Return
    \/ (\E r \in cache_entries : r.file_id = now + 1) /\ Tick
    \/ \E file_id \in 1..4 : FileChanged(file_id)

ScenarioSpec == CacheStart({CacheSettings(100, r, TRUE) : r \in {UNLIMITED, 0, WEEK_1}})
                /\ [][ScenarioNext]_vars

\* flows that share one cache manager; the files of the cache directory are written
\* by the flows that admit them and unlinked by the manager alone
FlowNext ==
    \/ \E f \in DOMAIN flow, file_id \in FileIds : StepGetCachedPath(f, file_id)
    \/ \E f \in DOMAIN flow, entry \in Entries : StepAddEntry(f, entry)
    \/ \E f \in DOMAIN flow : StepCleanup(f)
    \/ Tick

FlowSpec == CacheStart(AllSettings) /\ [][FlowNext]_vars

\* ------------------------------------------------------------------ claims
\* the task of call c is in the queue
Queued(c) ==
    /\ call[c].pc = "done"
    /\ \E i \in 1..Len(task_queue) : task_queue[i].callback_id = call[c].callback_id

\* a worker thread holds the task of call c: it is executing it or about to report it
Held(c) ==
    /\ call[c].pc = "done"
    /\ \E t \in Threads : pc[t] \in {"exec", "report"} /\ cur[t].callback_id = call[c].callback_id

\* the execution of the task of call c has begun
Begun(c) == call[c].pc = "done" /\ ~Queued(c)

\* the notification of the task of call c has been emitted
Notified(c) == Begun(c) /\ ~Held(c)

\* a thread is in the polling loop of _worker_main
InLoop(t) == pc[t] \in {"loop", "get", "sleep", "exec", "report"}

\* the worker was started, every thread it started has left its loop on a stop, and
\* nothing is on its way to the owner
WorkerAtRest ==
    /\ \E t \in Threads : pc[t] = "dead"
    /\ \A t \in Threads : pc[t] \in {"unborn", "dead"}
    /\ signals = <<>>
    /\ ownerPc = "idle"

\* callback(True, result) or callback(False, error message)
WellFormed(inv) ==
    IF inv.ok
    THEN inv.payload \in {TaskResult(TelegramTask(op, 0)) : op \in Ops}
    ELSE inv.payload \in {Str(e) : e \in Exceptions}

\* C1: the callback of every execute() call is invoked exactly once, with
\* (True, result) or (False, error message): never twice, its entry of the callback
\* map is gone once it was delivered, and no call is left without its notification
\* when the run has come to rest.
C1_ExactlyOnce ==
    /\ \A c \in Calls : Len(fired[c]) <= 1
    /\ \A c \in Calls : \A i \in 1..Len(fired[c]) : WellFormed(fired[c][i])
    /\ \A c \in Calls : Len(fired[c]) = 1 => call[c].callback_id \notin DOMAIN callbacks
    /\ WorkerAtRest => \A c \in Returned : Len(fired[c]) = 1

\* C2 (what the failing task leaves): when the task a thread executed raised, the
\* thread emits operation_failed with the task's callback_id and str(e), drops
\* nothing from the queue and is back at the head of its loop.
C2_FailureReported ==
    [][\A t \in Threads :
          (pc[t] = "report" /\ IsException(res[t]) /\ pc'[t] # "report")
          => /\ signals' = Append(signals, Failed(cur[t].callback_id, Str(res[t])))
             /\ task_queue' = task_queue
             /\ pc'[t] = "loop"]_vars

\* C2 (the loop keeps running): a task queued behind a failed one is dequeued,
\* executed and reported.
C2_LoopKeepsRunning ==
    \A t \in Threads : \A c \in Calls :
        (pc[t] = "report" /\ IsException(res[t]) /\ Queued(c)) ~> Notified(c)

\* C2: a task that raises is reported through operation_failed with its callback_id
\* and the stringified exception, and the loop keeps running: the tasks queued behind
\* it are still dequeued and executed.
C2_ExceptionKeepsLoop == C2_FailureReported /\ C2_LoopKeepsRunning

\* a first task failed, its callback got (False, message), and the task behind it
\* was executed and reported too
C2_Witness ==
    \E c, d \in Calls :
        /\ c < d
        /\ Len(fired[c]) = 1 /\ ~fired[c][1].ok
        /\ Len(fired[d]) = 1

\* C3: tasks are executed in the order execute() enqueued them: when the execution
\* of a later call's task has begun, the notification of every earlier call's task
\* has been emitted.
C3_Fifo ==
    \A a, b \in Calls :
        (a \in call[b].pre /\ Begun(b)) => Notified(a)

\* C4: a task put in the queue of a running loop while stream responses are being
\* relayed on it is dequeued and executed and its callback is fired, however long
\* the relaying goes on.
C4_TaskNotStarved ==
    \A c \in Calls :
        (Queued(c) /\ StreamsActive /\ \E t \in Threads : InLoop(t))
        ~> (Len(fired[c]) = 1)

\* every stream response is being relayed, the callback of a call has fired and the
\* task of the next call is at the head of the queue of a running loop
C4_Witness ==
    /\ \A s \in Streams : streams[s]
    /\ \E c, d \in Calls :
           /\ Len(fired[c]) = 1
           /\ Queued(d) /\ Head(task_queue).callback_id = call[d].callback_id
    /\ \E t \in Threads : InLoop(t)

\* C5: after any sequence of start() and stop() calls at most one thread is running
\* _worker_main, and a start() made while the thread of the handle is alive starts
\* none.
C5_OneLoop == Cardinality(AliveThreads) <= 1

\* no thread was ever started
NeverStarted == \A t \in Threads : pc[t] = "unborn"

\* C6: stop() on a worker that was never started changes nothing of the worker, its
\* task queue included.
C6_StopBeforeStartNoop ==
    [][(stops' = stops + 1 /\ NeverStarted)
       => UNCHANGED <<task_queue, thread, running, callback_counter, callbacks>>]_vars

\* C7: stop() always returns to its caller, also when the loop is inside a remote
\* call that never returns, and when it returns the thread handle is None.
C7_StopReturns ==
    /\ (ownerPc = "join") ~> (ownerPc = "idle")
    /\ [][((stops' = stops + 1 \/ ownerPc = "join") /\ ownerPc' = "idle")
          => thread' = None]_vars

\* stop() has returned on its timeout: the handle is None and the thread that was
\* joined is still inside the task
C7_Witness ==
    /\ stops > 0
    /\ ownerPc = "idle"
    /\ thread = None
    /\ \E t \in stopCaught : pc[t] = "exec"

\* C8: a task that is in flight when stop() is called is cancelled: the thread's
\* await of it never returns a result or an exception to report.
C8_StopCancelsInFlight ==
    [][\A t \in stopCaught : ~(pc[t] = "exec" /\ pc'[t] = "report")]_vars

\* the calls that have read their callback_id
HasId(c) == call[c].pc \in {"read", "registered", "done"}

\* C9: under any interleaving of concurrent execute() calls each call gets its own
\* callback_id, larger than the id of every call that had returned before it
\* began, and no registered callback is overwritten before it was delivered.
C9_ThreadSafe ==
    /\ \A c, d \in Calls :
           (c # d /\ HasId(c) /\ HasId(d)) => call[c].callback_id # call[d].callback_id
    /\ \A c \in Calls : \A d \in call[c].pre :
           HasId(c) => call[c].callback_id > call[d].callback_id
    /\ \A c \in Calls :
           (call[c].pc \in {"registered", "done"} /\ fired[c] = <<>>)
           => /\ call[c].callback_id \in DOMAIN callbacks
              /\ callbacks[call[c].callback_id] = c

Bytes(a, b) == [i \in 1..(b - a + 1) |-> a + i - 1]

IsPrefix(p, q) == Len(p) <= Len(q) /\ SubSeq(q, 1, Len(p)) = p

\* the request of response r asks for the bytes a..b: with bytes=a-b, with bytes=a-
\* (b the last byte) or with no Range header (a..b the whole object)
Requested(r, a, b) ==
    \/ /\ r.request.has_range
       /\ r.request.range = BytesEq \o Format(a) \o <<"-">> \o Format(b)
    \/ /\ r.request.has_range
       /\ r.request.range = BytesEq \o Format(a) \o <<"-">>
       /\ b = r.file_size - 1
    \/ /\ ~r.request.has_range
       /\ a = 0
       /\ b = r.file_size - 1

\* the handler of r found the stream registered and prepared a response for it
Served(r) == r.state \in {"streaming", "done"} /\ r.status \in {200, 206}

\* the handler of r has a message of the registered size to stream from, the backend
\* has delivered what was asked of it and every write has reached the client
Undisturbed(r) ==
    /\ r.message # NoMessage
    /\ r.message.size = r.file_size
    /\ ~r.write_failed
    /\ ~r.download_failed

Registered(r) == r.state # "none" /\ r.status # 404

\* C12: every response for a registered stream carries a Content-Length header, of
\* value end-start+1 for the bounds served, with status 200 as with status 206.
C12_ContentLength ==
    \A s \in Streams :
        Served(response[s]) => "Content-Length" \in response[s].header_names

\* C13: for a registered stream the response has status 206 and the header
\* Content-Range: bytes {start}-{end}/{total_size}, of the bounds served, exactly when
\* the request carried a Range header; without one it has status 200, no
\* Content-Range, and serves the whole object.
C13_StatusByRange ==
    \A s \in Streams :
        LET r == response[s]
        IN  Registered(r) =>
                IF r.request.has_range
                THEN /\ r.status = 206
                     /\ "Content-Range" \in r.header_names
                     /\ r.content_range = ContentRange(r.start, r.end, r.file_size)
                ELSE /\ r.status = 200
                     /\ "Content-Range" \notin r.header_names
                     /\ r.file_size >= 1 => (r.start = 0 /\ r.end = r.file_size - 1)

\* C14: for a registered stream of size T >= 1 the served bounds satisfy
\* 0 <= start <= end <= T-1, and a request bytes=a-b whose end b is smaller than the
\* clamped start is served from start to T-1.
C14_Clamped ==
    \A s \in Streams :
        LET r == response[s]
        IN  (Served(r) /\ r.file_size >= 1) =>
                /\ 0 <= r.start /\ r.start <= r.end /\ r.end <= r.file_size - 1
                /\ \A a, b \in 0..(MaxSize + 1) :
                       (/\ r.request.has_range
                        /\ r.request.range = BytesEq \o Format(a) \o <<"-">> \o Format(b)
                        /\ b < r.start)
                       => r.end = r.file_size - 1

\* C15: a Range header that is malformed or not supported never makes a request for
\* a registered stream fail: no exception leaves the handler and the response has
\* status 200 or 206.
C15_MalformedDegrades ==
    \A s \in Streams :
        LET r == response[s]
        IN  Registered(r) => (r.state # "raised" /\ r.status \in {200, 206})

\* C16: a request for a registered stream whose range starts at or beyond the total
\* size is answered with status 416.
C16_Unsatisfiable ==
    \A s \in Streams : \A a \in 0..(MaxSize + 1) : \A last \in Numerals :
        LET r == response[s]
        IN  (/\ Registered(r)
             /\ r.request.has_range
             /\ r.request.range = BytesEq \o Format(a) \o <<"-">> \o last
             /\ a >= r.file_size)
            => r.status = 416

\* C17: a request for a stream id that is not registered when it is made, never
\* registered or cleared by stop(), is answered with 404, leaves the registrations as
\* they are and starts no remote read: no message is fetched and no chunk is asked
\* for, then or later.
C17_UnknownToken ==
    /\ [][\A s \in Streams :
             (/\ response[s].state = "none"
              /\ response'[s].state # "none"
              /\ response'[s].request.stream_id \notin DOMAIN registrations)
             => /\ response'[s].status = 404
                /\ response'[s].state = "done"
                /\ registrations' = registrations]_vars
    /\ [](\A s \in Streams :
             response[s].status = 404
             => /\ response[s].state = "done"
                /\ response[s].message = NoMessage
                /\ response[s].chunks = 0
                /\ response[s].written = <<>>)

\* a request for a stream id that was handed out and then cleared by stop() got 404
\* from the restarted proxy
C17_Witness ==
    \E s \in Streams : \E i \in 1..Len(issued) :
        /\ response[s].status = 404
        /\ response[s].request.stream_id = issued[i].stream_id
        /\ site

\* C18: when a write to a stream response fails because its client is gone, the
\* handler asks for and writes no further chunk and returns without raising; the
\* registrations, every other response and the task queue are left as they are, and
\* the other responses in progress and the callers can take their next steps.
C18_DisconnectIsolated ==
    /\ [][\A s \in Streams :
             (~response[s].write_failed /\ response'[s].write_failed)
             => /\ response'[s].state = "done"
                /\ response'[s].written = response[s].written
                /\ registrations' = registrations
                /\ task_queue' = task_queue
                /\ \A o \in Streams \ {s} : response'[o] = response[o]]_vars
    /\ [][\A s \in Streams :
             response[s].write_failed => response'[s] = response[s]]_vars
    /\ [](\A s \in Streams :
             response[s].write_failed
             => /\ \A o \in Streams \ {s} :
                       response[o].state = "streaming" => ENABLED RelayStep(o)
                /\ (\E c \in Calls : call[c].pc = "idle") => ENABLED Execute)

\* a client went away in the middle of its response, and afterwards another response
\* was relayed to its end and a task was queued
C18_Witness ==
    \E s, o \in Streams :
        /\ response[s].write_failed /\ response[s].written # <<>>
        /\ response[o].state = "done" /\ Undisturbed(response[o])
        /\ response[o].written = Bytes(response[o].start, response[o].end)
        /\ Len(response[o].written) > Len(response[s].written)
        /\ task_queue # <<>>

\* C19 (as stated): a registration gets a stream id that no earlier registration got,
\* and it changes the stored registration of no stream id handed out before it.
C19_UniqueTokens ==
    [][Len(issued') > Len(issued)
       => /\ \A i \in 1..Len(issued) :
                 issued[i].stream_id # issued'[Len(issued')].stream_id
          /\ \A k \in DOMAIN registrations :
                 k \in DOMAIN registrations' /\ registrations'[k] = registrations[k]]_vars

\* chat and message ids whose decimal forms share digits
MixedIds == {-11, -1, 1, 11, 111}

\* C19: the stream id of a registration is f"{chat_id}_{message_id}" of its object:
\* registrations of different objects never share a stream id, a registration of an
\* object stores its tuple under that object's stream id, over what an earlier
\* registration of the same object stored there, and it changes what is stored
\* under no other stream id.
C19_TokenPerObject ==
    /\ \A c1, c2, m1, m2 \in MixedIds :
           StreamId(c1, m1) = StreamId(c2, m2) => (c1 = c2 /\ m1 = m2)
    /\ [](\A k \in DOMAIN registrations :
             StreamId(registrations[k].chat_id, registrations[k].message_id) = k)
    /\ [][Len(issued') > Len(issued)
          => LET t == issued'[Len(issued')].stream_id
             IN  /\ t \in DOMAIN registrations'
                 /\ issued'[Len(issued')].url = StreamUrl(t)
                 /\ \A k \in DOMAIN registrations \ {t} :
                        k \in DOMAIN registrations'
                        /\ registrations'[k] = registrations[k]]_vars

\* an object was registered twice: both registrations got the same stream id, and
\* one tuple is stored for it
C19_Witness ==
    /\ Len(issued) = 2
    /\ issued[1].stream_id = issued[2].stream_id
    /\ DOMAIN registrations = {issued[1].stream_id}

\* C20: a GET_STREAM_URL task succeeds only with a registration of a size above 0
\* that the fetched message reports; a message that is not found, or whose size is 0
\* or is reported by none of file, document and video, raises, and the task then
\* ends in operation_failed and registers nothing; so every registration the worker
\* made has total size > 0.
C20_KnownLength ==
    /\ \A chat_id \in ChatIds, message_id \in MessageIds :
       \A msg \in GetMessages(chat_id, message_id) :
           (msg = NoMessage \/ msg.media = "none" \/ msg.size = 0)
           <=> StreamUrlError(msg) # NoValue
    /\ [](\A k \in DOMAIN registrations :
             registrations[k].message # NoMessage
             => /\ registrations[k].file_size > 0
                /\ registrations[k].file_size = registrations[k].message.size)
    /\ [][Len(signals') > Len(signals)
          => LET sig == signals'[Len(signals')]
             IN  IF SuccessFlag(sig)
                 THEN /\ Len(issued') = Len(issued) + 1
                      /\ sig.payload.text = issued'[Len(issued')].url
                      /\ registrations'[issued'[Len(issued')].stream_id].file_size > 0
                 ELSE /\ registrations' = registrations
                      /\ issued' = issued]_vars

\* a task for a message of size 0 has failed and registered nothing, and a task for
\* a message with a size has registered its stream
C20_Witness ==
    /\ \E i \in 1..Len(signals) :
           /\ ~SuccessFlag(signals[i])
           /\ signals[i].payload = Str(Value("ValueError", "Could not determine file size"))
    /\ \E j \in 1..Len(signals) : SuccessFlag(signals[j])
    /\ Len(issued) = 1
    /\ \E k \in DOMAIN registrations : registrations[k].file_size > 0

\* ------------------------------------------------------------------ cache claims
\* the sum of file_size over the rows of the index
TotalSize == get_current_size(cache_entries)

\* the call made last ran cleanup() to completion: cleanup() itself, or add_entry()
\* or the settings screen with auto cleanup on
CleanupCompleted ==
    /\ lastCall.returned
    /\ \/ lastCall.op = "cleanup"
       \/ lastCall.op \in {"add_entry", "save"} /\ settings.auto_cleanup_enabled

CleanupStep == lastCall'.op = "cleanup" /\ lastCall'.returned

Removed == cache_entries \ cache_entries'

\* the strict LRU law: no entry is added or changed, every surviving entry has a
\* last_access not older than that of any removed entry, and an entry that the size
\* pass removed last was needed to get within the limit
LruLaw ==
    LET sized == Removed \ Stale(cache_entries, settings, now)
    IN  /\ cache_entries' \subseteq cache_entries
        /\ \A kept \in cache_entries' : \A gone \in Removed :
              kept.last_access >= gone.last_access
        /\ sized # {} =>
              \E gone \in Newest(sized) :
                 get_current_size(cache_entries') + gone.file_size > settings.size_limit

C23_Retention ==
    [][CleanupStep /\ ~lastCall'.failed /\ settings.retention_period >= 0
       => \A kept \in cache_entries' :
             kept.last_access >= now - settings.retention_period]_vars

\* the rows of the index that have file_id
RowsOf(file_id) == {r \in cache_entries : r.file_id = file_id}

\* C24: get_cached_path(file_id) on an entry whose file was deleted returns None and
\* removes the stale row, changing no other row and no file; and once a lookup of
\* file_id has returned None, a second lookup of it also returns None and changes
\* no row, whether or not a file is there by then
C24_SelfHealing ==
    /\ [][\A file_id \in FileIds :
            /\ file_id \notin files
            /\ lastCall'.op = "get_cached_path"
            /\ lastCall'.file_id = file_id
            => /\ lastCall'.ret = None
               /\ cache_entries' = cache_entries \ RowsOf(file_id)
               /\ files' = files]_vars
    /\ [](lastCall.op = "get_cached_path" /\ lastCall.ret = None
          => \A paths \in SUBSET FileIds :
                LET again == get_cached_path(cache_entries, paths, lastCall.file_id, now)
                IN  again.ret = None /\ again.rows = cache_entries)

\* a lookup has removed the row of an entry whose file was missing, and another
\* entry is indexed
C24_Witness ==
    /\ lastCall.op = "get_cached_path"
    /\ lastCall.ret = None
    /\ lastCall.removed = 1
    /\ RowsOf(lastCall.file_id) = {}
    /\ cache_entries # {}

\* C25: get_cached_path(file_id) on an entry whose file exists returns the stored
\* path and sets the entry's last_access to the current time, so that the entry is
\* a most recently used one; it changes no other row, no file and no size
C25_Touch ==
    [][\A row \in cache_entries :
          /\ row.file_path \in files
          /\ lastCall'.op = "get_cached_path"
          /\ lastCall'.file_id = row.file_id
          => /\ lastCall'.ret = row.file_path
             /\ cache_entries' =
                   (cache_entries \ {row}) \cup {[row EXCEPT !.last_access = now]}
             /\ [row EXCEPT !.last_access = now] \in Newest(cache_entries')
             /\ files' = files
             /\ TotalSize' = TotalSize]_vars

\* a lookup has returned the path of an entry and has made it more recent than
\* another entry
C25_Witness ==
    /\ lastCall.op = "get_cached_path"
    /\ lastCall.ret # None
    /\ \E row \in RowsOf(lastCall.file_id) :
          /\ row.file_path = lastCall.ret
          /\ row.last_access = now
          /\ \E other \in cache_entries : other.last_access < row.last_access

\* C26: the index holds at most one row per file_id, and add_entry of a file_id that
\* is indexed replaces the old row by the new entry: once it has returned, the index
\* has no other row of that file_id, and with auto cleanup off it has the new entry
\* in place of the old row, so that the total size counts the file_id once
C26_InsertOrReplace ==
    /\ [](\A r, q \in cache_entries : r.file_id = q.file_id => r = q)
    /\ [][\A entry \in Entries :
            /\ RowsOf(entry.file_id) # {}
            /\ lastCall'.op = "add_entry"
            /\ lastCall'.file_id = entry.file_id
            /\ lastCall'.returned
            /\ AddEntry(entry)
            => /\ RowsOf(entry.file_id)' \subseteq {entry}
               /\ ~settings.auto_cleanup_enabled
                  => /\ cache_entries' =
                           (cache_entries \ RowsOf(entry.file_id)) \cup {entry}
                     /\ TotalSize' = TotalSize - get_current_size(RowsOf(entry.file_id))
                                     + entry.file_size]_vars

\* add_entry has replaced a row by an entry with another last_access and the entry
\* is indexed, next to another one
C26_Witness ==
    /\ lastCall.op = "add_entry"
    /\ lastCall.replaced
    /\ \E row \in RowsOf(lastCall.file_id) : row.last_access > 0
    /\ Cardinality(cache_entries) > 1

\* C27: a deletion removes the file and the row of an entry, and the row alone when
\* the file is missing; the value that cleanup() and clear_all() return is the sum
\* of file_size of the rows that the call removed from the index, none of which has
\* a file left, and no other file is deleted
C27_FreedBytes ==
    [][lastCall'.op \in {"cleanup", "clear_all"} /\ lastCall'.returned
       => /\ cache_entries' \subseteq cache_entries
          /\ lastCall'.ret = get_current_size(Removed)
          /\ \A gone \in Removed : gone.file_path \notin files'
          /\ files \ files' \subseteq {gone.file_path : gone \in Removed}]_vars

\* a call has removed the rows of two entries, the file of one of which was missing,
\* and has returned the size of both
C27_Witness ==
    /\ lastCall.op \in {"cleanup", "clear_all"}
    /\ lastCall.returned
    /\ lastCall.removed = 2
    /\ lastCall.unlinked = 1
    /\ lastCall.ret = FileSize(1) + FileSize(2)

\* the step is a clear_all() that has returned
ClearAllStep == lastCall'.op = "clear_all" /\ lastCall'.returned

C29_Scenario ==
    lastCall.op = "add_entry" /\ lastCall.returned
    => /\ lastCall.file_id = 3 => {r.file_id : r \in cache_entries} = {2, 3}
       /\ lastCall.file_id = 4
          => /\ {r.file_id : r \in cache_entries} = {3, 4}
             /\ TotalSize = 80

\* the fourth insertion has returned, and its cleanup has evicted B by size
C29_Witness ==
    /\ lastCall.op = "add_entry"
    /\ lastCall.file_id = 4
    /\ lastCall.returned
    /\ lastCall.removed = 1
    /\ settings.retention_period = UNLIMITED

\* the rows and the files of the cache agree
Matched == {row.file_path : row \in cache_entries} = files

\* C30: under any interleaving of lookups, admissions and cleanups issued from more
\* than one flow, the operations take effect as atomic units, so that once the
\* operations in progress have finished no file of the cache is without its row and
\* no row is without its file
C30_NoLastingMismatch == CacheIdle => Matched

\* C33: cleanup() always terminates, whatever the index, the size limit and the
\* outcomes of the deletions, a deletion that fails and leaves its row included:
\* every call that runs cleanup() returns
C33_CleanupTerminates ==
    lastCall.op \in {"cleanup", "add_entry", "save"} => lastCall.returned

\* the entry is admitted with auto cleanup on, is no larger than the size limit, was
\* used after every other entry of the index, and lies within the retention window
Admissible(entry) ==
    /\ settings.auto_cleanup_enabled
    /\ entry.file_size <= settings.size_limit
    /\ \A row \in _remove_entry(cache_entries, entry.file_id) :
          row.last_access < entry.last_access
    /\ Stale({entry}, settings, now) = {}

ObjectOf(data) == <<data.chat_id, data.message_id>>

\* C38: the stream token is a function of the object reference alone: two distinct
\* references never give the same token; the table holds at most one registration
\* per object; and registering an object again returns the URL returned before,
\* adds no entry and leaves the tuple of the new call under the token
C38_TokenOfObject ==
    /\ \A c1, c2, m1, m2 \in MixedIds :
           <<c1, m1>> # <<c2, m2>> => StreamId(c1, m1) # StreamId(c2, m2)
    /\ [](\A k1, k2 \in DOMAIN registrations :
             ObjectOf(registrations[k1]) = ObjectOf(registrations[k2]) => k1 = k2)
    /\ [](\A i, j \in 1..Len(issued) :
             issued[i].stream_id = issued[j].stream_id <=> issued[i].url = issued[j].url)
    /\ [][Len(issued') > Len(issued)
          => LET t == issued'[Len(issued')].stream_id
             IN  /\ t = StreamId(registrations'[t].chat_id, registrations'[t].message_id)
                 /\ registrations'[t] \in
                        Registrable(registrations'[t].chat_id, registrations'[t].message_id)
                 /\ t \in DOMAIN registrations
                    => /\ DOMAIN registrations' = DOMAIN registrations
                       /\ ObjectOf(registrations'[t]) = ObjectOf(registrations[t])]_vars

\* an object that prepare_stream had registered was registered again by a task of
\* the worker: the same URL was returned twice, and the one tuple stored for the
\* object holds the message and the size of the second call
C38_Witness ==
    /\ Len(issued) = 2
    /\ issued[1].url = issued[2].url
    /\ Cardinality(DOMAIN registrations) = 1
    /\ Len(signals) = 1
    /\ \A k \in DOMAIN registrations :
          /\ registrations[k].message # NoMessage
          /\ registrations[k].file_size = MaxSize

\* ------------------------------------------------------------------ startup claims
\* the exception text carries one of the signatures of a corrupt session
Signature(e) ==
    \E piece \in {"no such column", "database is locked",
                  "database disk image is malformed"} : Contains(e, piece)

\* the connect() calls of a thread: at most two, the second one after the first one
\* raised with the signature of a corrupt session
RetriedOnce ==
    \A t \in Threads :
       /\ session.client[t].connects <= 2
       /\ pc[t] \in {"repair", "reconnect"}
          => session.client[t].connects = 1 /\ Signature(session.client[t].error)
       /\ session.client[t].connects = 2 => session.client[t].unlink # "none"

\* a connect() of the thread t raises in this step
ConnectRaises(t) == pc[t] \in {"connect", "reconnect"} /\ pc'[t] \notin {pc[t], "proxy"}

\* a failure of the first connect() with the signature leads to the repair; a
\* failure without it, and every failure of the second connect(), ends the thread
\* with no task taken from the queue, and the thread stays ended
FatalOtherwise ==
    \A t \in Threads :
       /\ ConnectRaises(t)
          => IF pc[t] = "connect" /\ Signature(session'.client[t].error)
             THEN pc'[t] = "repair"
             ELSE pc'[t] = "failed" /\ task_queue' = task_queue /\ cur'[t] = NoTask
       /\ pc[t] = "failed" => pc'[t] = "failed" /\ cur'[t] = NoTask

\* C31, as stated: at startup a connection failure with the corrupt-session
\* signature makes the worker delete the session file and retry the connection
\* exactly once; a failure of the retry, or a failure without the signature, is not
\* retried and ends the worker loop before any task is dequeued
C31_RepairOnce ==
    /\ []RetriedOnce
    /\ [][FatalOtherwise]_vars
    /\ [][\A t \in Threads :
             pc[t] = "repair" /\ pc'[t] # "repair"
             => pc'[t] = "reconnect" /\ ~session'.exists]_vars

\* C31, amended: the worker tries to delete the session file, and retries the
\* connection exactly once whether or not the deletion succeeded: the file is gone
\* unless its unlink raised OSError
C31_RepairOnceBestEffort ==
    /\ []RetriedOnce
    /\ [][FatalOtherwise]_vars
    /\ [][\A t \in Threads :
             pc[t] = "repair" /\ pc'[t] # "repair"
             => /\ pc'[t] = "reconnect"
                /\ session'.exists <=> session'.client[t].unlink = "OSError"]_vars

\* a thread deleted the session file and connected again, the second connect()
\* failed and the thread ended, with a task left in the queue
C31_Witness ==
    \E t \in Threads :
       /\ pc[t] = "failed"
       /\ session.client[t].connects = 2
       /\ session.client[t].unlink = "done"
       /\ task_queue # <<>>

\* ------------------------------------------------------------------ shutdown claims
\* C35: a GET_STREAM_URL task returns a stream URL only when the listener of the
\* thread's gateway was started; after a failed start it ends with an error
C35_UrlOnlyWhenListening ==
    [][\A t \in Threads :
          /\ pc[t] = "exec" /\ pc'[t] = "report"
          /\ cur[t].operation = "GET_STREAM_URL"
          /\ ~IsException(res'[t])
          => listener = t]_vars

\* C36: a worker whose loop was ended by stop() and that was started again keeps
\* serving: with no later stop(), the thread of the handle does not leave its loop
C36_RestartServes ==
    /\ stops > 0 /\ running /\ ownerPc = "idle" /\ thread # None
    /\ \E u \in Threads \ {thread} : pc[u] = "dead"
    => pc[thread] # "dead"

\* C39: when a thread leaves its loop after a stop(), its gateway is shut down: the
\* listener is closed and the registration table is empty
C39_GatewayDownWithLoop ==
    [][\A t \in Threads :
          pc[t] # "dead" /\ pc'[t] = "dead"
          => listener' # t /\ registrations' = <<>>]_vars

\* ------------------------------------------------------------------ size limit claims
\* C34: a size tier is enabled exactly when its value is at most the free space
\* less the reserve of 5 GiB, floored at 0 (the tier plus 5 GiB fits in the free
\* space); with at most 5 GiB free no tier is enabled; an enabled tier implies that
\* every smaller tier is enabled
C34_TiersByBudget ==
    disk # NoDisk
    => /\ DOMAIN disk.limits = 1..7
       /\ {disk.limits[i].value : i \in 1..7} = {2, 4, 6, 8, 10, 30, 50}
       /\ \A i \in 1..7 :
             disk.limits[i].enabled <=> 2 * (disk.limits[i].value + 5) <= disk.free
       /\ disk.free <= 2 * 5 => \A i \in 1..7 : ~disk.limits[i].enabled
       /\ \A i, j \in 1..7 :
             disk.limits[i].enabled /\ disk.limits[j].value < disk.limits[i].value
             => disk.limits[j].enabled

\* 15 GiB are free: the tiers up to 10 GiB are enabled, the larger ones are not
C34_Witness ==
    /\ disk.free = 2 * 15
    /\ {disk.limits[i].value : i \in {k \in 1..7 : disk.limits[k].enabled}}
           = {2, 4, 6, 8, 10}

\* ------------------------------------------------------------------ moov claims
\* the header read is that of an atom tagged moov with a declared size
IsMoov(header_data) ==
    /\ Len(header_data) >= 8
    /\ parse_atom_header(header_data).size > 0
    /\ SubSeq(header_data, 5, 8) = <<109, 111, 111, 118>>

\* the header read ends the scan with no result
Aborts(header_data) == Len(header_data) < 8 \/ parse_atom_header(header_data).size = 0

\* the headers read by the call are read at offsets below file_size that start at 0,
\* follow the declared sizes and strictly increase; only the last header read can
\* be one that ends the scan; once the call has returned, the result is the offset
\* and size of the moov atom read last if there is one, and absent otherwise
ScanSound ==
    LET v == scan.visited
    IN  /\ \A i \in DOMAIN v : 0 <= v[i].offset /\ v[i].offset < scan.file_size
        /\ v # <<>> => v[1].offset = 0
        /\ \A i \in 1..(Len(v) - 1) :
              /\ v[i + 1].offset > v[i].offset
              /\ v[i + 1].offset = v[i].offset + parse_atom_header(v[i].header_data).size
              /\ ~IsMoov(v[i].header_data) /\ ~Aborts(v[i].header_data)
        /\ Len(v) <= scan.file_size
        /\ scan.pc = "done"
           => IF v # <<>> /\ IsMoov(v[Len(v)].header_data)
              THEN scan.result = <<v[Len(v)].offset,
                                   parse_atom_header(v[Len(v)].header_data).size>>
              ELSE /\ scan.result = Absent
                   /\ \/ v # <<>> /\ Aborts(v[Len(v)].header_data)
                      \/ scan.offset >= scan.file_size

\* C32: find_moov_position terminates; it reads headers only at offsets below
\* total_size, the offsets strictly increase, a size of 0 or a header of fewer than
\* 8 bytes ends the scan with an absent result, and otherwise the result is the
\* offset and size of the first moov atom reached by following the sizes from 0
C32_ScanTerminates ==
    /\ []ScanSound
    /\ (scan.pc = "loop") ~> (scan.pc = "done")

\* a call returned the position of a moov atom that is not the first atom
C32_Witness ==
    /\ scan.pc = "done"
    /\ Len(scan.visited) > 2
    /\ scan.result # Absent
    /\ scan.result[1] > 0

\* ------------------------------------------------------------------ playlist claims
\* C40: after any sequence of the playlist operations, current_index is -1 or an
\* index into the playlist
C40_IndexValid ==
    \/ service.current_index = -1
    \/ 0 <= service.current_index /\ service.current_index < Len(service.playlist)

====
